---------------------------- MODULE Spec2Model ----------------------------
(***************************************************************************)
(* The patch engine of game-localizer (graft): the directory differ, the   *)
(* validate / backup / apply+verify / rollback state machine of            *)
(* patch_apply::run, and the inverse patch_rollback::run.                  *)
(*                                                                         *)
(* A directory is a function from file names to contents; content 0 is an  *)
(* absent file.  File names are the integers 1..NumFiles, standing for     *)
(* leaf names in byte-wise ascending order.                                *)
(***************************************************************************)
EXTENDS Integers, Sequences, FiniteSets, TLC

NumFiles == 2
NumContents == 2
MaxCalls == 2

Files == 1..NumFiles
Contents == 1..NumContents
Absent == 0
Dir == [Files -> {Absent} \cup Contents]
EmptyDir == [f \in Files |-> Absent]

None == <<>>

(***************************************************************************)
(* Primitives: content hash and binary diff.                               *)
(***************************************************************************)
\* hash_bytes: a collision-free digest, rendered in a domain of its own.
Hash(bytes) == <<"h", bytes>>

\* A diff artifact: the delta that turns old into new, or unparseable bytes.
MakeDiff(old, new) ==
    [kind |-> "delta", d |-> (new - old + NumContents) % NumContents]

ApplyDiff(old, d) == ((old - 1 + d) % NumContents) + 1

DiffArtifacts ==
    [kind : {"delta"}, d : 0..(NumContents - 1)] \cup {[kind |-> "corrupt", d |-> 0]}
NoArtifact == [kind |-> "missing", d |-> 0]

(***************************************************************************)
(* PatchError and results.                                                 *)
(***************************************************************************)
Ok == [kind |-> "Ok", file |-> 0, reason |-> ""]
PatchError(k, f, r) == [kind |-> k, file |-> f, reason |-> r]
IsOk(r) == r.kind = "Ok"

(***************************************************************************)
(* Directory differ (dir_scan.rs).                                         *)
(***************************************************************************)
\* list_files: the names of the regular files of a directory.
ListFiles(dir) == {f \in Files : dir[f] # Absent}

FileChangePatch(f, oh, fh) ==
    [op |-> "patch", file |-> f, original_hash |-> oh, final_hash |-> fh]
FileChangeAdd(f, fh) ==
    [op |-> "add", file |-> f, original_hash |-> None, final_hash |-> fh]
FileChangeDelete(f, oh) ==
    [op |-> "delete", file |-> f, original_hash |-> oh, final_hash |-> None]

\* changes.sort_by(|a, b| a.file().cmp(b.file()))
RECURSIVE SortByFile(_)
SortByFile(changes) ==
    IF changes = {} THEN <<>>
    ELSE LET first == CHOOSE c \in changes : \A d \in changes : c.file <= d.file
         IN  <<first>> \o SortByFile(changes \ {first})

\* CategorizeFiles with the "only in original directory" loop left out
CategorizeFiles_NoDelete(orig_dir, new_dir) ==
    LET orig_files == ListFiles(orig_dir)
        new_files  == ListFiles(new_dir)
        patches == {FileChangePatch(f, Hash(orig_dir[f]), Hash(new_dir[f])) :
                      f \in {g \in orig_files \cap new_files :
                                Hash(orig_dir[g]) # Hash(new_dir[g])}}
        adds    == {FileChangeAdd(f, Hash(new_dir[f])) : f \in new_files \ orig_files}
    IN  SortByFile(patches \cup adds)

CategorizeFiles(orig_dir, new_dir) ==
    LET orig_files == ListFiles(orig_dir)
        new_files  == ListFiles(new_dir)
        patches == {FileChangePatch(f, Hash(orig_dir[f]), Hash(new_dir[f])) :
                      f \in {g \in orig_files \cap new_files :
                                Hash(orig_dir[g]) # Hash(new_dir[g])}}
        adds    == {FileChangeAdd(f, Hash(new_dir[f])) : f \in new_files \ orig_files}
        deletes == {FileChangeDelete(f, Hash(orig_dir[f])) : f \in orig_files \ new_files}
    IN  SortByFile(patches \cup adds \cup deletes)

(***************************************************************************)
(* categorize_files as it runs: three loops over HashSets, whose iteration *)
(* order is not specified, pushing onto a Vec that is sorted at the end.   *)
(* orig_iter and new_iter are the orders in which the sets orig_files and  *)
(* new_files yield their members.                                          *)
(***************************************************************************)
IterationOrders ==
    {s \in [1..NumFiles -> Files] : \A i, j \in 1..NumFiles : s[i] = s[j] => i = j}

\* PatchLoop without the `if orig_hash != new_hash` test
PatchLoop_NoCompare(orig_dir, new_dir, orig_iter) ==
    LET InBoth(f) == f \in ListFiles(orig_dir) \cap ListFiles(new_dir)
        both == SelectSeq(orig_iter, InBoth)
    IN  [i \in 1..Len(both) |->
            FileChangePatch(both[i], Hash(orig_dir[both[i]]), Hash(new_dir[both[i]]))]

\* for file in orig_files.intersection(&new_files)
PatchLoop(orig_dir, new_dir, orig_iter) ==
    LET Modified(f) == /\ f \in ListFiles(orig_dir) \cap ListFiles(new_dir)
                       /\ Hash(orig_dir[f]) # Hash(new_dir[f])
        modified == SelectSeq(orig_iter, Modified)
    IN  [i \in 1..Len(modified) |->
            FileChangePatch(modified[i], Hash(orig_dir[modified[i]]),
                            Hash(new_dir[modified[i]]))]

\* AddLoop that iterates new_files itself, not its difference with orig_files
AddLoop_AllNew(orig_dir, new_dir, new_iter) ==
    LET InNew(f) == f \in ListFiles(new_dir)
        all == SelectSeq(new_iter, InNew)
    IN  [i \in 1..Len(all) |-> FileChangeAdd(all[i], Hash(new_dir[all[i]]))]

\* for file in new_files.difference(&orig_files)
AddLoop(orig_dir, new_dir, new_iter) ==
    LET OnlyNew(f) == f \in ListFiles(new_dir) \ ListFiles(orig_dir)
        added == SelectSeq(new_iter, OnlyNew)
    IN  [i \in 1..Len(added) |-> FileChangeAdd(added[i], Hash(new_dir[added[i]]))]

\* for file in orig_files.difference(&new_files)
DeleteLoop(orig_dir, new_dir, orig_iter) ==
    LET OnlyOrig(f) == f \in ListFiles(orig_dir) \ ListFiles(new_dir)
        removed == SelectSeq(orig_iter, OnlyOrig)
    IN  [i \in 1..Len(removed) |->
            FileChangeDelete(removed[i], Hash(orig_dir[removed[i]]))]

\* SortBy that leaves the vector as the loops pushed it
SortBy_Unsorted(changes) == changes

\* changes.sort_by(|a, b| a.file().cmp(b.file())): a stable sort
RECURSIVE SortBy(_)
SortBy(changes) ==
    IF changes = <<>> THEN <<>>
    ELSE LET c == changes[Len(changes)]
             sorted == SortBy(SubSeq(changes, 1, Len(changes) - 1))
             k == Cardinality({i \in 1..Len(sorted) : sorted[i].file <= c.file})
         IN  SubSeq(sorted, 1, k) \o <<c>> \o SubSeq(sorted, k + 1, Len(sorted))

CategorizeFilesIter(orig_dir, new_dir, orig_iter, new_iter) ==
    SortBy(PatchLoop(orig_dir, new_dir, orig_iter)
             \o AddLoop(orig_dir, new_dir, new_iter)
             \o DeleteLoop(orig_dir, new_dir, orig_iter))

(***************************************************************************)
(* Patch builder: promotes each FileChange to a ManifestEntry and writes   *)
(* diffs/<file>.diff and additions/<file>.                                 *)
(***************************************************************************)
ManifestEntry(c, orig_dir, new_dir) ==
    [op |-> c.op, file |-> c.file,
     original_hash |-> c.original_hash,
     diff_hash |-> IF c.op = "patch"
                   THEN Hash(MakeDiff(orig_dir[c.file], new_dir[c.file]))
                   ELSE None,
     final_hash |-> c.final_hash]

PatchCreate(orig_dir, new_dir) ==
    LET changes == CategorizeFiles(orig_dir, new_dir)
        kind(f) == IF \E i \in 1..Len(changes) : changes[i].file = f
                   THEN (CHOOSE c \in {changes[i] : i \in 1..Len(changes)} : c.file = f).op
                   ELSE "none"
    IN  [entries   |-> [i \in 1..Len(changes) |->
                          ManifestEntry(changes[i], orig_dir, new_dir)],
         diffs     |-> [f \in Files |-> IF kind(f) = "patch"
                                        THEN MakeDiff(orig_dir[f], new_dir[f])
                                        ELSE NoArtifact],
         additions |-> [f \in Files |-> IF kind(f) = "add" THEN new_dir[f] ELSE Absent]]

(***************************************************************************)
(* Manifest file (manifest.rs).  A JSON object is the sequence of its      *)
(* members <<key, value>>, in the order serde writes the struct's fields.  *)
(***************************************************************************)
DefaultVersion == 1

JsonString(x) == <<"string", x>>
JsonNumber(n) == <<"number", n>>
JsonNull == <<"null">>

\* every value of the struct ManifestEntry, whatever its operation
Operations == {"patch", "add", "delete"}
ManifestEntryValues ==
    [op : Operations, file : Files,
     original_hash : {None} \cup {Hash(c) : c \in Contents},
     diff_hash : {None} \cup {Hash(a) : a \in DiffArtifacts},
     final_hash : {None} \cup {Hash(c) : c \in Contents}]

\* OptionField without #[serde(skip_serializing_if = "Option::is_none")]
OptionField_NoSkip(key, v) ==
    << <<key, IF v = None THEN JsonNull ELSE JsonString(v)>> >>

\* an Option<String> field under skip_serializing_if = "Option::is_none"
OptionField(key, v) ==
    IF v = None THEN <<>> ELSE << <<key, JsonString(v)>> >>

\* #[derive(Serialize)] for ManifestEntry; Operation is written lowercase
SerializeEntry(e) ==
    << <<"file", JsonString(e.file)>>, <<"operation", JsonString(e.op)>> >>
        \o OptionField("original_hash", e.original_hash)
        \o OptionField("diff_hash", e.diff_hash)
        \o OptionField("final_hash", e.final_hash)

\* serde_json::to_string_pretty(self) for Manifest
SerializeManifest(version, entries) ==
    << <<"version", JsonNumber(version)>>,
       <<"entries", [i \in 1..Len(entries) |-> SerializeEntry(entries[i])]>> >>

\* the versions a manifest is written with: Manifest::default's and another
Versions == {DefaultVersion, DefaultVersion + 1}

HasField(object, key) == \E i \in 1..Len(object) : object[i][1] = key
Field(object, key) == object[CHOOSE i \in 1..Len(object) : object[i][1] = key][2]

\* an Option<String> field read back: a missing member and null both give None
DeserializeOption(object, key) ==
    IF ~HasField(object, key) THEN None
    ELSE IF Field(object, key) = JsonNull THEN None
         ELSE Field(object, key)[2]

\* #[derive(Deserialize)] for ManifestEntry: file and operation are required,
\* operation is one of the lowercase names, the three hashes are Options
DeserializeEntry(object) ==
    IF ~HasField(object, "file")
    THEN [err |-> PatchError("InvalidData", 0, "missing field file")]
    ELSE IF ~HasField(object, "operation")
    THEN [err |-> PatchError("InvalidData", 0, "missing field operation")]
    ELSE IF Field(object, "operation")[2] \notin Operations
    THEN [err |-> PatchError("InvalidData", 0, "unknown variant")]
    ELSE [err   |-> Ok,
          entry |-> [op |-> Field(object, "operation")[2],
                     file |-> Field(object, "file")[2],
                     original_hash |-> DeserializeOption(object, "original_hash"),
                     diff_hash |-> DeserializeOption(object, "diff_hash"),
                     final_hash |-> DeserializeOption(object, "final_hash")]]

\* DeserializeManifest that fills in the version of Manifest::default
DeserializeManifest_DefaultVersion(doc) ==
    LET objects == Field(doc, "entries")
        parsed  == [i \in 1..Len(objects) |-> DeserializeEntry(objects[i])]
        bad     == {i \in 1..Len(objects) : ~IsOk(parsed[i].err)}
    IN  IF bad # {}
        THEN [err |-> parsed[CHOOSE i \in bad : \A j \in bad : i <= j].err]
        ELSE [err |-> Ok, version |-> DefaultVersion,
              entries |-> [i \in 1..Len(objects) |-> parsed[i].entry]]

\* serde_json::from_str::<Manifest>(&content)
DeserializeManifest(doc) ==
    LET objects == Field(doc, "entries")
        parsed  == [i \in 1..Len(objects) |-> DeserializeEntry(objects[i])]
        bad     == {i \in 1..Len(objects) : ~IsOk(parsed[i].err)}
    IN  IF bad # {}
        THEN [err |-> parsed[CHOOSE i \in bad : \A j \in bad : i <= j].err]
        ELSE [err |-> Ok, version |-> Field(doc, "version")[2],
              entries |-> [i \in 1..Len(objects) |-> parsed[i].entry]]

\* Manifest::load(path).  file is [state, doc]: a missing file, bytes that
\* are not JSON, or a JSON document
ManifestLoad(file) ==
    CASE file.state = "missing" -> [err |-> PatchError("NotFound", 0, "read")]
      [] file.state = "malformed" -> [err |-> PatchError("InvalidData", 0, "syntax")]
      [] file.state = "ok" -> DeserializeManifest(file.doc)

\* .map_err(|e| PatchError::ManifestError { reason: e.to_string() })
MapManifestError(r) ==
    IF IsOk(r.err) THEN r
    ELSE [err |-> PatchError("ManifestError", 0, r.err.reason)]

(***************************************************************************)
(* File-ops (file_ops.rs).  A backup directory is [exists, files].         *)
(***************************************************************************)
\* backup_file: create_dir_all(backup_dir), then copy file to backup_dir/leaf.
BackupFile(f, tgt, bk) ==
    [exists |-> TRUE, files |-> [bk.files EXCEPT ![f] = tgt[f]]]

\* restore_file: copy backup_dir/leaf over the file; the copy keeps the backup.
RestoreFile(f, tgt, bk) == [tgt EXCEPT ![f] = bk.files[f]]

(***************************************************************************)
(* Phase 1: validate_entries.                                              *)
(***************************************************************************)
\* ValidateEntry without the Add arm's exists() check
ValidateEntry_NoAddCheck(e, tgt) ==
    CASE e.op = "patch" ->
            IF tgt[e.file] = Absent
            THEN PatchError("ValidationFailed", e.file, "file not found in target")
            ELSE IF Hash(tgt[e.file]) # e.original_hash
                 THEN PatchError("ValidationFailed", e.file, "hash mismatch")
                 ELSE Ok
      [] e.op = "add" -> Ok
      [] e.op = "delete" ->
            IF tgt[e.file] # Absent /\ Hash(tgt[e.file]) # e.original_hash
            THEN PatchError("ValidationFailed", e.file, "hash mismatch")
            ELSE Ok

\* ValidateEntry whose Delete arm demands the file, like the Patch arm
ValidateEntry_DeleteMustExist(e, tgt) ==
    CASE e.op \in {"patch", "delete"} ->
            IF tgt[e.file] = Absent
            THEN PatchError("ValidationFailed", e.file, "file not found in target")
            ELSE IF Hash(tgt[e.file]) # e.original_hash
                 THEN PatchError("ValidationFailed", e.file, "hash mismatch")
                 ELSE Ok
      [] e.op = "add" ->
            IF tgt[e.file] # Absent
            THEN PatchError("ValidationFailed", e.file, "file already exists in target")
            ELSE Ok

\* ValidateEntry that does not compare a Patch file's hash with original_hash
ValidateEntry_PatchExistsOnly(e, tgt) ==
    CASE e.op = "patch" ->
            IF tgt[e.file] = Absent
            THEN PatchError("ValidationFailed", e.file, "file not found in target")
            ELSE Ok
      [] e.op = "add" ->
            IF tgt[e.file] # Absent
            THEN PatchError("ValidationFailed", e.file, "file already exists in target")
            ELSE Ok
      [] e.op = "delete" ->
            IF tgt[e.file] # Absent /\ Hash(tgt[e.file]) # e.original_hash
            THEN PatchError("ValidationFailed", e.file, "hash mismatch")
            ELSE Ok

ValidateEntry(e, tgt) ==
    CASE e.op = "patch" ->
            IF tgt[e.file] = Absent
            THEN PatchError("ValidationFailed", e.file, "file not found in target")
            ELSE IF Hash(tgt[e.file]) # e.original_hash
                 THEN PatchError("ValidationFailed", e.file, "hash mismatch")
                 ELSE Ok
      [] e.op = "add" ->
            IF tgt[e.file] # Absent
            THEN PatchError("ValidationFailed", e.file, "file already exists in target")
            ELSE Ok
      [] e.op = "delete" ->
            IF tgt[e.file] # Absent /\ Hash(tgt[e.file]) # e.original_hash
            THEN PatchError("ValidationFailed", e.file, "hash mismatch")
            ELSE Ok

\* ValidateEntries that reports the last entry that fails
ValidateEntries_LastFailure(entries, tgt) ==
    LET bad == {i \in 1..Len(entries) : ValidateEntry(entries[i], tgt) # Ok} IN
    IF bad = {} THEN Ok
    ELSE ValidateEntry(entries[CHOOSE i \in bad : \A j \in bad : j <= i], tgt)

RECURSIVE ValidateFrom(_, _, _)
ValidateFrom(entries, i, tgt) ==
    IF i > Len(entries) THEN Ok
    ELSE LET r == ValidateEntry(entries[i], tgt)
         IN  IF IsOk(r) THEN ValidateFrom(entries, i + 1, tgt) ELSE r

ValidateEntries(entries, tgt) == ValidateFrom(entries, 1, tgt)

(***************************************************************************)
(* Phase 2: backup_entries.  failAt is the entry whose copy the file       *)
(* system refuses (0: none).                                               *)
(***************************************************************************)
\* NeedsBackup with the Delete pattern missing from the match arm
NeedsBackup_PatchOnly(e, tgt) == e.op = "patch" /\ tgt[e.file] # Absent

NeedsBackup(e, tgt) == e.op \in {"patch", "delete"} /\ tgt[e.file] # Absent

RECURSIVE BackupFrom(_, _, _, _, _)
BackupFrom(entries, i, tgt, bk, failAt) ==
    IF i > Len(entries) THEN [bk |-> bk, err |-> Ok]
    ELSE IF NeedsBackup(entries[i], tgt)
         THEN IF i = failAt
              THEN [bk  |-> [bk EXCEPT !.exists = TRUE],
                    err |-> PatchError("BackupFailed", entries[i].file, "io")]
              ELSE BackupFrom(entries, i + 1, tgt,
                              BackupFile(entries[i].file, tgt, bk), failAt)
         ELSE BackupFrom(entries, i + 1, tgt, bk, failAt)

\* BackupEntries whose loop stops one entry short
BackupEntries_SkipLast(entries, tgt, bk, failAt) ==
    BackupFrom(SubSeq(entries, 1, Len(entries) - 1), 1, tgt, bk, failAt)

\* BackupEntries that drops the error of a failed copy (no `?`)
BackupEntries_IgnoreError(entries, tgt, bk, failAt) ==
    [bk |-> BackupFrom(entries, 1, tgt, bk, failAt).bk, err |-> Ok]

BackupEntries(entries, tgt, bk, failAt) == BackupFrom(entries, 1, tgt, bk, failAt)

(***************************************************************************)
(* Phase 3: apply_entry and verify_entry.                                  *)
(***************************************************************************)
\* apply_entry.  checkDiffHash: whether this engine checks hash(artifact)
\* against diff_hash before applying (permitted, not required).
ApplyEntry(e, tgt, diffs, additions, checkDiffHash) ==
    CASE e.op = "patch" ->
            LET art == diffs[e.file] IN
            IF tgt[e.file] = Absent \/ art.kind # "delta"
            THEN [target |-> tgt, err |-> PatchError("ApplyFailed", e.file, "diff")]
            ELSE IF checkDiffHash /\ Hash(art) # e.diff_hash
                 THEN [target |-> tgt,
                       err |-> PatchError("ApplyFailed", e.file, "diff hash mismatch")]
                 ELSE [target |-> [tgt EXCEPT ![e.file] = ApplyDiff(tgt[e.file], art.d)],
                       err |-> Ok]
      [] e.op = "add" ->
            IF additions[e.file] = Absent
            THEN [target |-> tgt, err |-> PatchError("ApplyFailed", e.file, "copy")]
            ELSE [target |-> [tgt EXCEPT ![e.file] = additions[e.file]], err |-> Ok]
      [] e.op = "delete" ->
            [target |-> [tgt EXCEPT ![e.file] = Absent], err |-> Ok]

\* VerifyEntry that reads the file but does not compare its hash
VerifyEntry_ExistsOnly(e, tgt) ==
    CASE e.op \in {"patch", "add"} ->
            IF tgt[e.file] = Absent
            THEN PatchError("VerificationFailed", e.file, "failed to read file")
            ELSE Ok
      [] e.op = "delete" ->
            IF tgt[e.file] # Absent
            THEN PatchError("VerificationFailed", e.file, "file still exists")
            ELSE Ok

\* VerifyEntry that takes a Delete entry as verified
VerifyEntry_DeleteUnchecked(e, tgt) ==
    CASE e.op \in {"patch", "add"} ->
            IF tgt[e.file] = Absent
            THEN PatchError("VerificationFailed", e.file, "failed to read file")
            ELSE IF Hash(tgt[e.file]) # e.final_hash
                 THEN PatchError("VerificationFailed", e.file, "hash")
                 ELSE Ok
      [] e.op = "delete" -> Ok

\* verify_entry
VerifyEntry(e, tgt) ==
    CASE e.op \in {"patch", "add"} ->
            IF tgt[e.file] = Absent
            THEN PatchError("VerificationFailed", e.file, "failed to read file")
            ELSE IF Hash(tgt[e.file]) # e.final_hash
                 THEN PatchError("VerificationFailed", e.file, "hash")
                 ELSE Ok
      [] e.op = "delete" ->
            IF tgt[e.file] # Absent
            THEN PatchError("VerificationFailed", e.file, "file still exists")
            ELSE Ok

(***************************************************************************)
(* rollback: undo the applied entries from the backup directory.  failAt   *)
(* is the position in `applied` whose copy or removal the file system      *)
(* refuses (0: none).                                                      *)
(***************************************************************************)
\* Rollback that restores every file the backup directory holds
Rollback_RestoreAll(applied, tgt, bk, failAt) ==
    [target |-> [f \in Files |-> IF bk.files[f] # Absent THEN bk.files[f] ELSE tgt[f]],
     err |-> Ok]

RECURSIVE RollbackFrom(_, _, _, _, _)
RollbackFrom(applied, j, tgt, bk, failAt) ==
    IF j > Len(applied) THEN [target |-> tgt, err |-> Ok]
    ELSE LET e == applied[j] IN
         CASE e.op = "patch" ->
                 IF bk.files[e.file] = Absent
                 THEN [target |-> tgt,
                       err |-> PatchError("RollbackFailed", e.file,
                                          "failed to restore: not found")]
                 ELSE IF j = failAt
                      THEN [target |-> tgt,
                            err |-> PatchError("RollbackFailed", e.file,
                                               "failed to restore: io error")]
                      ELSE RollbackFrom(applied, j + 1, RestoreFile(e.file, tgt, bk),
                                        bk, failAt)
           [] e.op = "delete" ->
                 IF bk.files[e.file] # Absent
                 THEN IF j = failAt
                      THEN [target |-> tgt,
                            err |-> PatchError("RollbackFailed", e.file,
                                               "failed to restore: io error")]
                      ELSE RollbackFrom(applied, j + 1, RestoreFile(e.file, tgt, bk),
                                        bk, failAt)
                 ELSE RollbackFrom(applied, j + 1, tgt, bk, failAt)
           [] e.op = "add" ->
                 IF tgt[e.file] # Absent
                 THEN IF j = failAt
                      THEN [target |-> tgt,
                            err |-> PatchError("RollbackFailed", e.file,
                                               "failed to remove added file: io error")]
                      ELSE RollbackFrom(applied, j + 1, [tgt EXCEPT ![e.file] = Absent],
                                        bk, failAt)
                 ELSE RollbackFrom(applied, j + 1, tgt, bk, failAt)

\* Rollback that reports success without restoring or removing anything
Rollback_Nothing(applied, tgt, bk, failAt) == [target |-> tgt, err |-> Ok]

\* Rollback that removes an added file without looking whether it exists
Rollback_RemoveUnchecked(applied, tgt, bk, failAt) ==
    IF \E j \in 1..Len(applied) : applied[j].op = "add" /\ tgt[applied[j].file] = Absent
    THEN [target |-> tgt,
          err |-> PatchError("RollbackFailed", 0, "failed to remove added file: not found")]
    ELSE RollbackFrom(applied, 1, tgt, bk, failAt)

Rollback(applied, tgt, bk, failAt) == RollbackFrom(applied, 1, tgt, bk, failAt)


(***************************************************************************)
(* patch_rollback::run helpers.                                            *)
(***************************************************************************)
\* validate_patched_entries: every target is in its post-apply state.
PatchedEntryState(e, tgt) ==
    CASE e.op \in {"patch", "add"} ->
            IF tgt[e.file] = Absent
            THEN PatchError("ValidationFailed", e.file, "file not found in target")
            ELSE IF Hash(tgt[e.file]) # e.final_hash
                 THEN PatchError("ValidationFailed", e.file, "hash mismatch")
                 ELSE Ok
      [] e.op = "delete" ->
            IF tgt[e.file] # Absent
            THEN PatchError("ValidationFailed", e.file, "file still exists")
            ELSE Ok

RECURSIVE ValidatePatchedFrom(_, _, _)
ValidatePatchedFrom(entries, i, tgt) ==
    IF i > Len(entries) THEN Ok
    ELSE LET r == PatchedEntryState(entries[i], tgt)
         IN  IF IsOk(r) THEN ValidatePatchedFrom(entries, i + 1, tgt) ELSE r

ValidatePatchedEntries(entries, tgt) == ValidatePatchedFrom(entries, 1, tgt)

\* validate_backup: every backup that should exist hashes to original_hash.
\* A Delete entry without a backup file had no original to back up.
BackupEntryState(e, bk) ==
    CASE e.op = "patch" ->
            IF bk.files[e.file] = Absent
            THEN PatchError("RollbackFailed", e.file, "backup file missing")
            ELSE IF Hash(bk.files[e.file]) # e.original_hash
                 THEN PatchError("RollbackFailed", e.file, "backup hash mismatch")
                 ELSE Ok
      [] e.op = "delete" ->
            IF bk.files[e.file] # Absent /\ Hash(bk.files[e.file]) # e.original_hash
            THEN PatchError("RollbackFailed", e.file, "backup hash mismatch")
            ELSE Ok
      [] e.op = "add" -> Ok

RECURSIVE ValidateBackupFrom(_, _, _)
ValidateBackupFrom(entries, i, bk) ==
    IF i > Len(entries) THEN Ok
    ELSE LET r == BackupEntryState(entries[i], bk)
         IN  IF IsOk(r) THEN ValidateBackupFrom(entries, i + 1, bk) ELSE r

ValidateBackup(entries, bk) == ValidateBackupFrom(entries, 1, bk)

(***************************************************************************)
(* State.                                                                  *)
(***************************************************************************)
VARIABLES
    orig,        \* the directory the patch was created from
    new,         \* the directory the patch was created to
    manifest,    \* the loaded manifest entries, in manifest order
    diffs,       \* patch_dir/diffs/<file>.diff
    additions,   \* patch_dir/additions/<file>
    target,      \* the target directory, outside .patch-backup
    backup,      \* target/.patch-backup: [exists, files]
    pc,          \* position of the running call: idle, backup, apply, verify, rollback
    idx,         \* the manifest entry phase 3 is at
    applied,     \* phase 3's list `applied`
    err,         \* the error `e` of the failed apply or verify step
    pre,         \* target and backup when the running (or last) call began
    log,         \* the calls that have returned: call, force, result, cause, pre
    events,      \* the ProgressEvents the callback of PatchRunner::apply received
    scratch      \* the directory PatchRunner::new extracts to: none, exists, deleted

vars == <<orig, new, manifest, diffs, additions, target, backup, pc, idx, applied,
          err, pre, log, events, scratch>>

bundle == <<orig, new, manifest, diffs, additions>>

runner == <<events, scratch>>

Snapshot == [target |-> target, backup |-> backup]

Return(call, force, result, cause, snap) ==
    /\ log' = Append(log, [call |-> call, force |-> force, result |-> result,
                           cause |-> cause, pre |-> snap])
    /\ pc' = "idle"

(***************************************************************************)
(* Initial states: a patch created from (orig, new); any target; a backup  *)
(* directory that is missing, empty or holds one file of an earlier        *)
(* application; a bundle with at most one artifact damaged.                *)
(***************************************************************************)
Damaged(created, f, a, v) ==
    [diffs     |-> IF created.diffs[f].kind = "delta"
                   THEN [created.diffs EXCEPT ![f] = a] ELSE created.diffs,
     additions |-> IF created.additions[f] # Absent
                   THEN [created.additions EXCEPT ![f] = v] ELSE created.additions]

Init ==
    /\ orig \in Dir
    /\ new \in Dir
    /\ manifest = PatchCreate(orig, new).entries
    /\ \E f \in Files, a \in DiffArtifacts, v \in {Absent} \cup Contents :
          /\ diffs = Damaged(PatchCreate(orig, new), f, a, v).diffs
          /\ additions = Damaged(PatchCreate(orig, new), f, a, v).additions
    /\ target \in Dir
    /\ \/ backup = [exists |-> FALSE, files |-> EmptyDir]
       \/ \E f \in Files, v \in {Absent} \cup Contents :
             backup = [exists |-> TRUE, files |-> [EmptyDir EXCEPT ![f] = v]]
    /\ pc = "idle"
    /\ idx = 0
    /\ applied = <<>>
    /\ err = Ok
    /\ pre = [target |-> target, backup |-> backup]
    /\ log = <<>>
    /\ events = <<>>
    /\ scratch = "none"

(***************************************************************************)
(* patch_apply::run, one action per phase step.                            *)
(***************************************************************************)
\* run, phase 1: validate_entries(&manifest.entries, target_dir)?
ApplyValidate ==
    /\ pc = "idle"
    /\ Len(log) < MaxCalls
    /\ pre' = Snapshot
    /\ idx' = 0
    /\ applied' = <<>>
    /\ err' = Ok
    /\ LET r == ValidateEntries(manifest, target) IN
       IF IsOk(r)
       THEN /\ pc' = "backup"
            /\ log' = log
       ELSE Return("apply", FALSE, r, Ok, Snapshot)
    /\ UNCHANGED <<bundle, runner, target, backup>>

\* run, phase 2: backup_entries(&manifest.entries, target_dir, &backup_dir)?
ApplyBackup ==
    /\ pc = "backup"
    /\ \E failAt \in 0..Len(manifest) :
          LET r == BackupEntries(manifest, target, backup, failAt) IN
          /\ backup' = r.bk
          /\ IF ~IsOk(r.err)
             THEN /\ Return("apply", FALSE, r.err, Ok, pre)
                  /\ idx' = idx
             ELSE IF Len(manifest) = 0
                  THEN /\ Return("apply", FALSE, Ok, Ok, pre)
                       /\ idx' = idx
                  ELSE /\ pc' = "apply"
                       /\ idx' = 1
                       /\ log' = log
    /\ UNCHANGED <<bundle, runner, target, applied, err, pre>>

\* run, phase 3: apply_entry(entry, target_dir, patch_dir)
ApplyStep ==
    /\ pc = "apply"
    /\ \E checkDiffHash \in BOOLEAN :
          LET r == ApplyEntry(manifest[idx], target, diffs, additions, checkDiffHash) IN
          /\ target' = r.target
          /\ IF IsOk(r.err)
             THEN /\ pc' = "verify"
                  /\ err' = err
             ELSE /\ pc' = "rollback"
                  /\ err' = r.err
    /\ UNCHANGED <<bundle, runner, backup, idx, applied, pre, log>>

\* VerifyStep that goes on to the next entry whatever verify_entry returned
VerifyStep_KeepGoing ==
    /\ pc = "verify"
    /\ applied' = Append(applied, manifest[idx])
    /\ err' = err
    /\ IF idx = Len(manifest)
       THEN /\ Return("apply", FALSE, Ok, Ok, pre)
            /\ idx' = idx
       ELSE /\ pc' = "apply"
            /\ idx' = idx + 1
            /\ log' = log
    /\ UNCHANGED <<bundle, runner, target, backup, pre>>

\* run, phase 3: verify_entry(entry, target_dir), then applied.push(entry)
VerifyStep ==
    /\ pc = "verify"
    /\ LET r == VerifyEntry(manifest[idx], target) IN
       IF IsOk(r)
       THEN /\ applied' = Append(applied, manifest[idx])
            /\ err' = err
            /\ IF idx = Len(manifest)
               THEN /\ Return("apply", FALSE, Ok, Ok, pre)
                    /\ idx' = idx
               ELSE /\ pc' = "apply"
                    /\ idx' = idx + 1
                    /\ log' = log
       ELSE /\ pc' = "rollback"
            /\ err' = r
            /\ UNCHANGED <<applied, idx, log>>
    /\ UNCHANGED <<bundle, runner, target, backup, pre>>

\* run, phase 3 failure: rollback(&applied, target_dir, &backup_dir)?; return Err(e)
RollbackStep ==
    /\ pc = "rollback"
    /\ \E failAt \in 0..Len(applied) :
          LET r == Rollback(applied, target, backup, failAt) IN
          /\ target' = r.target
          /\ Return("apply", FALSE, IF IsOk(r.err) THEN err ELSE r.err, err, pre)
    /\ UNCHANGED <<bundle, runner, backup, idx, applied, err, pre>>

(***************************************************************************)
(* patch_rollback::run(target_dir, manifest_path, force).                  *)
(***************************************************************************)
\* RunRollbackResult that runs validate_patched_entries whatever force is
RunRollbackResult_ForceIgnored(entries, tgt, bk, force, failAt) ==
    IF ~bk.exists
    THEN [target |-> tgt,
          err |-> PatchError("RollbackFailed", 0, "backup directory not found")]
    ELSE LET p == ValidatePatchedEntries(entries, tgt)
             b == ValidateBackup(entries, bk)
         IN  IF ~IsOk(p) THEN [target |-> tgt, err |-> p]
             ELSE IF ~IsOk(b) THEN [target |-> tgt, err |-> b]
             ELSE Rollback(entries, tgt, bk, failAt)

\* RunRollbackResult without the validate_patched_entries step
RunRollbackResult_NoPatchedCheck(entries, tgt, bk, force, failAt) ==
    IF ~bk.exists
    THEN [target |-> tgt,
          err |-> PatchError("RollbackFailed", 0, "backup directory not found")]
    ELSE LET b == ValidateBackup(entries, bk)
         IN  IF ~IsOk(b) THEN [target |-> tgt, err |-> b]
             ELSE Rollback(entries, tgt, bk, failAt)

\* RunRollbackResult with validate_backup moved inside `if !force`
RunRollbackResult_ForceSkipsBackupCheck(entries, tgt, bk, force, failAt) ==
    IF ~bk.exists
    THEN [target |-> tgt,
          err |-> PatchError("RollbackFailed", 0, "backup directory not found")]
    ELSE LET p == IF force THEN Ok ELSE ValidatePatchedEntries(entries, tgt)
             b == IF force THEN Ok ELSE ValidateBackup(entries, bk)
         IN  IF ~IsOk(p) THEN [target |-> tgt, err |-> p]
             ELSE IF ~IsOk(b) THEN [target |-> tgt, err |-> b]
             ELSE Rollback(entries, tgt, bk, failAt)

\* RunRollbackResult that runs validate_patched_entries only when forced
RunRollbackResult_CheckWhenForced(entries, tgt, bk, force, failAt) ==
    IF ~bk.exists
    THEN [target |-> tgt,
          err |-> PatchError("RollbackFailed", 0, "backup directory not found")]
    ELSE LET p == IF force THEN ValidatePatchedEntries(entries, tgt) ELSE Ok
             b == ValidateBackup(entries, bk)
         IN  IF ~IsOk(p) THEN [target |-> tgt, err |-> p]
             ELSE IF ~IsOk(b) THEN [target |-> tgt, err |-> b]
             ELSE Rollback(entries, tgt, bk, failAt)

RunRollbackResult(entries, tgt, bk, force, failAt) ==
    IF ~bk.exists
    THEN [target |-> tgt,
          err |-> PatchError("RollbackFailed", 0, "backup directory not found")]
    ELSE LET p == IF force THEN Ok ELSE ValidatePatchedEntries(entries, tgt)
             b == ValidateBackup(entries, bk)
         IN  IF ~IsOk(p) THEN [target |-> tgt, err |-> p]
             ELSE IF ~IsOk(b) THEN [target |-> tgt, err |-> b]
             ELSE Rollback(entries, tgt, bk, failAt)

RunRollback ==
    /\ pc = "idle"
    /\ Len(log) < MaxCalls
    /\ \E force \in BOOLEAN, failAt \in 0..Len(manifest) :
          LET r == RunRollbackResult(manifest, target, backup, force, failAt) IN
          /\ target' = r.target
          /\ Return("rollback", force, r.err, Ok, Snapshot)
    /\ pre' = Snapshot
    /\ UNCHANGED <<bundle, runner, backup, idx, applied, err>>

Next ==
    \/ ApplyValidate
    \/ ApplyBackup
    \/ ApplyStep
    \/ VerifyStep
    \/ RollbackStep
    \/ RunRollback

Spec == Init /\ [][Next]_vars


(***************************************************************************)
(* The calls in their environment: run_rollback with the manifest file it  *)
(* is pointed at, a user or another program changing a target file between *)
(* calls, and the process being killed in phase 3.                         *)
(***************************************************************************)
\* the file at manifest_path, as Manifest::load finds it
ManifestFiles == {"ok", "missing", "malformed"}

\* PatchRollbackRun that looks for the backup directory before loading
PatchRollbackRun_BackupDirFirst(mf, entries, tgt, bk, force, failAt) ==
    IF ~bk.exists
    THEN [target |-> tgt,
          err |-> PatchError("RollbackFailed", 0, "backup directory not found")]
    ELSE IF mf # "ok"
         THEN [target |-> tgt, err |-> PatchError("ManifestError", 0, mf)]
         ELSE RunRollbackResult(entries, tgt, bk, force, failAt)

\* run: Manifest::load(manifest_path).map_err(ManifestError)?, then the rest
PatchRollbackRun(mf, entries, tgt, bk, force, failAt) ==
    IF mf # "ok"
    THEN [target |-> tgt, err |-> PatchError("ManifestError", 0, mf)]
    ELSE RunRollbackResult(entries, tgt, bk, force, failAt)

\* a returned run_rollback call is logged with the manifest file it was given
RunRollbackCall ==
    /\ pc = "idle"
    /\ Len(log) < MaxCalls
    /\ \E mf \in ManifestFiles, force \in BOOLEAN, failAt \in 0..Len(manifest) :
          LET r == PatchRollbackRun(mf, manifest, target, backup, force, failAt) IN
          /\ target' = r.target
          /\ log' = Append(log, [call |-> "rollback", force |-> force,
                                 result |-> r.err, cause |-> Ok, pre |-> Snapshot,
                                 load |-> mf])
    /\ pc' = "idle"
    /\ pre' = Snapshot
    /\ UNCHANGED <<bundle, runner, backup, idx, applied, err>>

\* after a successful apply, something else rewrites, creates or removes a
\* target file
ExternalModify ==
    /\ pc = "idle"
    /\ 0 < Len(log) /\ Len(log) < MaxCalls
    /\ log[Len(log)].call = "apply"
    /\ IsOk(log[Len(log)].result)
    /\ \E f \in Files, v \in {Absent} \cup Contents :
          /\ v # target[f]
          /\ target' = [target EXCEPT ![f] = v]
    /\ UNCHANGED <<bundle, runner, backup, pc, idx, applied, err, pre, log>>

\* the process is killed in phase 3 between two entries: entries 1..idx-1
\* are applied and verified, entry idx is not begun
Crash ==
    /\ pc = "apply"
    /\ Return("apply", FALSE, PatchError("Terminated", 0, "killed"), Ok, pre)
    /\ UNCHANGED <<bundle, runner, target, backup, idx, applied, err, pre>>

NextCalls ==
    \/ ApplyValidate
    \/ ApplyBackup
    \/ ApplyStep
    \/ VerifyStep
    \/ RollbackStep
    \/ RunRollbackCall
    \/ ExternalModify
    \/ Crash

SpecCalls == Init /\ [][NextCalls]_vars


(***************************************************************************)
(* The differ on its own: categorize_files called on a pair of directories.*)
(***************************************************************************)
InitTools ==
    /\ orig \in Dir
    /\ new \in Dir
    /\ manifest = PatchCreate(orig, new).entries
    /\ diffs = PatchCreate(orig, new).diffs
    /\ additions = PatchCreate(orig, new).additions
    /\ target = orig
    /\ backup = [exists |-> FALSE, files |-> EmptyDir]
    /\ pc = "idle"
    /\ idx = 0
    /\ applied = <<>>
    /\ err = Ok
    /\ pre = [target |-> target, backup |-> backup]
    /\ log = <<>>
    /\ events = <<>>
    /\ scratch = "none"

\* categorize_files(orig_dir, new_dir), each call with HashSets of its own;
\* the log keeps the name orig_files yielded first and the returned list
CategorizeCall ==
    /\ pc = "idle"
    /\ Len(log) < MaxCalls
    /\ \E orig_iter \in IterationOrders, new_iter \in IterationOrders :
          log' = Append(log, [call |-> "categorize",
                              orig_first |-> orig_iter[1],
                              result |-> CategorizeFilesIter(orig, new,
                                                             orig_iter, new_iter)])
    /\ UNCHANGED <<bundle, runner, target, backup, pc, idx, applied, err, pre>>

NextDiffer == CategorizeCall

SpecDiffer == InitTools /\ [][NextDiffer]_vars


(***************************************************************************)
(* The manifest file on its own: Manifest::save of a manifest the builder  *)
(* made (in its order or in the reverse order), or of a single entry with  *)
(* any combination of hash fields; and Manifest::load of the file at the   *)
(* path, as the last save left it or as edited since.                      *)
(***************************************************************************)
Reverse(seq) == [i \in 1..Len(seq) |-> seq[Len(seq) + 1 - i]]

InitManifest ==
    /\ \/ /\ orig \in Dir
          /\ new \in Dir
          /\ \/ manifest = PatchCreate(orig, new).entries
             \/ manifest = Reverse(PatchCreate(orig, new).entries)
       \/ /\ orig = EmptyDir
          /\ new = EmptyDir
          /\ \E e \in ManifestEntryValues : manifest = <<e>>
    /\ diffs = PatchCreate(orig, new).diffs
    /\ additions = PatchCreate(orig, new).additions
    /\ target = orig
    /\ backup = [exists |-> FALSE, files |-> EmptyDir]
    /\ pc = "idle"
    /\ idx = 0
    /\ applied = <<>>
    /\ err = Ok
    /\ pre = [target |-> target, backup |-> backup]
    /\ log = <<>>
    /\ events = <<>>
    /\ scratch = "none"

\* Manifest::save(path): serialize, then fs::write, which may fail
SaveCall ==
    /\ pc = "idle"
    /\ Len(log) < MaxCalls
    /\ \E written \in BOOLEAN, version \in Versions :
          log' = Append(log,
                   [call |-> "save",
                    version |-> version,
                    result |-> IF written THEN Ok ELSE PatchError("io", 0, "write"),
                    content |-> IF written
                                THEN SerializeManifest(version, manifest)
                                ELSE None])
    /\ UNCHANGED <<bundle, runner, target, backup, pc, idx, applied, err, pre>>

\* the file at the manifest path: what the last successful save wrote
Saves == {i \in 1..Len(log) : log[i].call = "save" /\ IsOk(log[i].result)}
FileAtPath ==
    IF Saves = {} THEN [state |-> "missing", doc |-> <<>>]
    ELSE [state |-> "ok",
          doc |-> log[CHOOSE i \in Saves : \A j \in Saves : j <= i].content]

\* what may have happened to the file before it is loaded: nothing, removal,
\* bytes that are not JSON, or one member taken out of one entry object
EntryKeys == {"file", "operation", "original_hash", "diff_hash", "final_hash"}
Edits(file) ==
    {[kind |-> "none", entry |-> 0, key |-> ""]} \cup
    (IF file.state # "ok" THEN {}
     ELSE [kind : {"remove", "garble"}, entry : {0}, key : {""}] \cup
          [kind : {"drop"}, entry : 1..Len(Field(file.doc, "entries")), key : EntryKeys])

DropMember(doc, i, key) ==
    LET objects == Field(doc, "entries")
        Keep(m) == m[1] # key
    IN  << <<"version", Field(doc, "version")>>,
           <<"entries", [j \in 1..Len(objects) |->
                           IF j = i THEN SelectSeq(objects[j], Keep) ELSE objects[j]]>> >>

Edited(file, ed) ==
    CASE ed.kind = "none" -> file
      [] ed.kind = "remove" -> [state |-> "missing", doc |-> <<>>]
      [] ed.kind = "garble" -> [state |-> "malformed", doc |-> <<>>]
      [] ed.kind = "drop" -> [state |-> "ok", doc |-> DropMember(file.doc, ed.entry, ed.key)]

\* Manifest::load(path), called directly or as the first statement of
\* patch_apply::run and patch_rollback::run, which map its error
Callers == {"Manifest::load", "patch_apply::run", "patch_rollback::run"}

LoadCall ==
    /\ pc = "idle"
    /\ Len(log) < MaxCalls
    /\ \E by \in Callers, ed \in Edits(FileAtPath) :
          LET file == Edited(FileAtPath, ed)
              r    == IF by = "Manifest::load" THEN ManifestLoad(file)
                      ELSE MapManifestError(ManifestLoad(file))
          IN  log' = Append(log,
                       [call |-> "load", by |-> by, edit |-> ed.kind, file |-> file,
                        result |-> r.err,
                        loaded |-> IF IsOk(r.err)
                                   THEN [version |-> r.version, entries |-> r.entries]
                                   ELSE None])
    /\ UNCHANGED <<bundle, runner, target, backup, pc, idx, applied, err, pre>>

NextManifest ==
    \/ SaveCall
    \/ LoadCall

SpecManifest == InitManifest /\ [][NextManifest]_vars


(***************************************************************************)
(* The file-ops on their own: backup_file and restore_file called on any   *)
(* file of any target, with any backup directory, and files of the target  *)
(* written in between.  fault: the file system refuses the operation.      *)
(***************************************************************************)
\* backup_file: create_dir_all(backup_dir)?; fs::copy(file, backup_path)?
BackupFileResult(f, tgt, bk, fault) ==
    IF fault
    THEN [target |-> tgt, backup |-> bk, err |-> PatchError("io", f, "create_dir_all")]
    ELSE IF tgt[f] = Absent
         THEN [target |-> tgt, backup |-> [bk EXCEPT !.exists = TRUE],
               err |-> PatchError("io", f, "copy: not found")]
         ELSE [target |-> tgt, backup |-> BackupFile(f, tgt, bk), err |-> Ok]

\* RestoreFileResult that renames the backup file onto the target
RestoreFileResult_Move(f, tgt, bk, fault) ==
    IF fault \/ bk.files[f] = Absent
    THEN [target |-> tgt, backup |-> bk, err |-> PatchError("io", f, "copy")]
    ELSE [target |-> RestoreFile(f, tgt, bk),
          backup |-> [bk EXCEPT !.files[f] = Absent], err |-> Ok]

\* restore_file: fs::copy(&backup_path, file)?
RestoreFileResult(f, tgt, bk, fault) ==
    IF fault \/ bk.files[f] = Absent
    THEN [target |-> tgt, backup |-> bk, err |-> PatchError("io", f, "copy")]
    ELSE [target |-> RestoreFile(f, tgt, bk), backup |-> bk, err |-> Ok]

InitFileOps ==
    /\ orig = EmptyDir
    /\ new = EmptyDir
    /\ manifest = <<>>
    /\ diffs = PatchCreate(orig, new).diffs
    /\ additions = PatchCreate(orig, new).additions
    /\ target \in Dir
    /\ \/ backup = [exists |-> FALSE, files |-> EmptyDir]
       \/ \E files \in Dir : backup = [exists |-> TRUE, files |-> files]
    /\ pc = "idle"
    /\ idx = 0
    /\ applied = <<>>
    /\ err = Ok
    /\ pre = [target |-> target, backup |-> backup]
    /\ log = <<>>
    /\ events = <<>>
    /\ scratch = "none"

FileOpReturn(call, f, r) ==
    /\ target' = r.target
    /\ backup' = r.backup
    /\ pre' = Snapshot
    /\ log' = Append(log, [call |-> call, file |-> f, result |-> r.err,
                           pre |-> Snapshot,
                           post |-> [target |-> r.target, backup |-> r.backup]])
    /\ UNCHANGED <<bundle, runner, pc, idx, applied, err>>

BackupFileCall ==
    /\ pc = "idle"
    /\ Len(log) < MaxCalls
    /\ \E f \in Files, fault \in BOOLEAN :
          FileOpReturn("backup_file", f, BackupFileResult(f, target, backup, fault))

RestoreFileCall ==
    /\ pc = "idle"
    /\ Len(log) < MaxCalls
    /\ \E f \in Files, fault \in BOOLEAN :
          FileOpReturn("restore_file", f, RestoreFileResult(f, target, backup, fault))

\* fs::write(&file_path, ..) and fs::remove_file between the calls
WriteTarget ==
    /\ pc = "idle"
    /\ Len(log) < MaxCalls
    /\ \E f \in Files, v \in {Absent} \cup Contents :
          /\ v # target[f]
          /\ target' = [target EXCEPT ![f] = v]
    /\ UNCHANGED <<bundle, runner, backup, pc, idx, applied, err, pre, log>>

NextFileOps ==
    \/ BackupFileCall
    \/ RestoreFileCall
    \/ WriteTarget

SpecFileOps == InitFileOps /\ [][NextFileOps]_vars


(***************************************************************************)
(* graft-gui: PatchRunner::new and PatchRunner::apply with its progress    *)
(* callback, as run_headless drives them; one runner per run.              *)
(***************************************************************************)
ProcessingEvent(entry, i, total) ==
    [ev |-> "Processing", file |-> entry.file, index |-> i, total |-> total]

ProcessedEvent(i, total) == [ev |-> "Processed", index |-> i, total |-> total]

DoneEvent(total) == [ev |-> "Done", files_patched |-> total]

ErrorEvent(message, file, e) ==
    [ev |-> "Error", message |-> <<message, file>>, details |-> e]

PatchRunnerError(kind) == [kind |-> kind, file |-> 0, reason |-> "PatchRunnerError"]

NewOutcomes == {"tempdir failed", "unpack failed", "manifest failed", "ok"}

\* PatchRunner::new: tempfile::tempdir()?; unpack(..)?; Manifest::load(..)?;
\* temp_dir.keep().  A TempDir dropped by `?` deletes its directory; keep()
\* persists the directory and hands back its path.
PatchRunnerNew(outcome) ==
    CASE outcome = "tempdir failed" ->
            [scratch |-> "none", err |-> PatchRunnerError("ExtractionFailed")]
      [] outcome = "unpack failed" ->
            [scratch |-> "deleted", err |-> PatchRunnerError("ExtractionFailed")]
      [] outcome = "manifest failed" ->
            [scratch |-> "deleted", err |-> PatchRunnerError("ManifestLoadFailed")]
      [] outcome = "ok" ->
            [scratch |-> "exists", err |-> Ok]

\* PatchRunner has no Drop; its patch_dir is a PathBuf
DropRunner(dir) == dir

\* EventsAfterVerify that reports the entry whatever verify_entry returned
EventsAfterVerify_Unverified(evs, i, total, r) ==
    IF i + 1 = total
    THEN evs \o <<ProcessedEvent(i, total), DoneEvent(total)>>
    ELSE Append(evs, ProcessedEvent(i, total))

\* apply, lines 96-112: the events after verify_entry of entry i returned r
\* (rollback of a failed entry comes first and is RunnerRollback's)
EventsAfterVerify(evs, i, total, r) ==
    IF ~IsOk(r)
    THEN evs
    ELSE IF i + 1 = total
         THEN evs \o <<ProcessedEvent(i, total), DoneEvent(total)>>
         ELSE Append(evs, ProcessedEvent(i, total))

\* apply, lines 88-93 and 97-102: rollback(..)?; on_progress(Error); return Err(e)
EventsAfterRollback(evs, phase, entry, e, r) ==
    IF ~IsOk(r)
    THEN evs
    ELSE Append(evs, ErrorEvent(IF phase = "apply" THEN "Failed to apply patch to"
                                ELSE "Verification failed for", entry.file, e))

RunnerReturn(result, cause) ==
    /\ log' = Append(log, [call |-> "PatchRunner::apply", force |-> FALSE,
                           result |-> result, cause |-> cause, pre |-> pre])
    /\ pc' = "returned"

RunnerNew ==
    /\ pc = "idle"
    /\ scratch = "none"
    /\ \E outcome \in NewOutcomes :
          LET r == PatchRunnerNew(outcome) IN
          /\ scratch' = r.scratch
          /\ IF IsOk(r.err)
             THEN /\ pc' = "constructed"
                  /\ log' = log
             ELSE /\ pc' = "new failed"
                  /\ log' = Append(log, [call |-> "PatchRunner::new", result |-> r.err])
    /\ UNCHANGED <<bundle, target, backup, idx, applied, err, pre, events>>

\* apply, line 70: validate_entries(..)?
RunnerValidate ==
    /\ pc = "constructed"
    /\ pre' = Snapshot
    /\ LET r == ValidateEntries(manifest, target) IN
       IF IsOk(r)
       THEN /\ pc' = "backup"
            /\ log' = log
       ELSE /\ log' = Append(log, [call |-> "PatchRunner::apply", force |-> FALSE,
                                   result |-> r, cause |-> Ok, pre |-> Snapshot])
            /\ pc' = "returned"
    /\ UNCHANGED <<bundle, runner, target, backup, idx, applied, err>>

\* apply, lines 73-74: backup_entries(..)?; an empty loop goes on to Done
RunnerBackup ==
    /\ pc = "backup"
    /\ \E failAt \in 0..Len(manifest) :
          LET r == BackupEntries(manifest, target, backup, failAt) IN
          /\ backup' = r.bk
          /\ IF ~IsOk(r.err)
             THEN /\ RunnerReturn(r.err, Ok)
                  /\ UNCHANGED <<idx, events>>
             ELSE IF Len(manifest) = 0
                  THEN /\ RunnerReturn(Ok, Ok)
                       /\ events' = Append(events, DoneEvent(0))
                       /\ idx' = idx
                  ELSE /\ pc' = "apply"
                       /\ idx' = 1
                       /\ UNCHANGED <<log, events>>
    /\ UNCHANGED <<bundle, scratch, target, applied, err, pre>>

\* apply, lines 79-87: on_progress(Processing); apply_entry(..)
RunnerApplyStep ==
    /\ pc = "apply"
    /\ events' = Append(events, ProcessingEvent(manifest[idx], idx - 1, Len(manifest)))
    /\ \E checkDiffHash \in BOOLEAN :
          LET r == ApplyEntry(manifest[idx], target, diffs, additions, checkDiffHash) IN
          /\ target' = r.target
          /\ IF IsOk(r.err)
             THEN /\ pc' = "verify"
                  /\ err' = err
             ELSE /\ pc' = "rollback apply"
                  /\ err' = r.err
    /\ UNCHANGED <<bundle, scratch, backup, idx, applied, pre, log>>

\* apply, lines 96-112: verify_entry(..); applied.push; on_progress(Processed)
RunnerVerifyStep ==
    /\ pc = "verify"
    /\ LET r == VerifyEntry(manifest[idx], target) IN
       /\ events' = EventsAfterVerify(events, idx - 1, Len(manifest), r)
       /\ IF IsOk(r)
          THEN /\ applied' = Append(applied, manifest[idx])
               /\ err' = err
               /\ IF idx = Len(manifest)
                  THEN /\ RunnerReturn(Ok, Ok)
                       /\ idx' = idx
                  ELSE /\ pc' = "apply"
                       /\ idx' = idx + 1
                       /\ log' = log
          ELSE /\ pc' = "rollback verify"
               /\ err' = r
               /\ UNCHANGED <<applied, idx, log>>
    /\ UNCHANGED <<bundle, scratch, target, backup, pre>>

\* apply, lines 88-93 and 97-102
RunnerRollback ==
    /\ pc \in {"rollback apply", "rollback verify"}
    /\ \E failAt \in 0..Len(applied) :
          LET r == Rollback(applied, target, backup, failAt) IN
          /\ target' = r.target
          /\ events' = EventsAfterRollback(events,
                          IF pc = "rollback apply" THEN "apply" ELSE "verify",
                          manifest[idx], err, r.err)
          /\ RunnerReturn(IF IsOk(r.err) THEN err ELSE r.err, err)
    /\ UNCHANGED <<bundle, scratch, backup, idx, applied, err, pre>>

\* run_headless, lines 64-73: the runner goes out of scope
RunnerDrop ==
    /\ pc = "returned"
    /\ pc' = "dropped"
    /\ scratch' = DropRunner(scratch)
    /\ UNCHANGED <<bundle, events, target, backup, idx, applied, err, pre, log>>

NextRunner ==
    \/ RunnerNew
    \/ RunnerValidate
    \/ RunnerBackup
    \/ RunnerApplyStep
    \/ RunnerVerifyStep
    \/ RunnerRollback
    \/ RunnerDrop

SpecRunner == Init /\ [][NextRunner]_vars


(***************************************************************************)
(* commands::check::run(expected, file).  The expected strings: the hex    *)
(* hash of each content, the same digits in upper case, and the all-zero   *)
(* string of the tests, which no content hashes to.                        *)
(***************************************************************************)
ExpectedStrings ==
    {Hash(v) : v \in Contents} \cup {<<"H", v>> : v \in Contents} \cup {<<"h", Absent>>}

\* CheckRun whose NoMatch carries the expected string
CheckRun_CarriesExpected(expected, content, fault) ==
    IF fault \/ content = Absent
    THEN [err |-> PatchError("io", 0, "hash_file"), result |-> None]
    ELSE IF Hash(content) = expected
         THEN [err |-> Ok, result |-> [kind |-> "Match"]]
         ELSE [err |-> Ok, result |-> [kind |-> "NoMatch", actual |-> expected]]

\* run: let actual = hash_file(file)?; if actual == expected ..
CheckRun(expected, content, fault) ==
    IF fault \/ content = Absent
    THEN [err |-> PatchError("io", 0, "hash_file"), result |-> None]
    ELSE LET actual == Hash(content) IN
         IF actual = expected
         THEN [err |-> Ok, result |-> [kind |-> "Match"]]
         ELSE [err |-> Ok, result |-> [kind |-> "NoMatch", actual |-> actual]]

\* a target directory with any files; no patch has been applied to it
InitCheck ==
    /\ InitFileOps
    /\ ~backup.exists

CheckCall ==
    /\ pc = "idle"
    /\ Len(log) < MaxCalls
    /\ \E f \in Files, expected \in ExpectedStrings, fault \in BOOLEAN :
          LET r == CheckRun(expected, target[f], fault) IN
          log' = Append(log, [call |-> "check", file |-> f, expected |-> expected,
                              result |-> r.err, out |-> r.result, pre |-> Snapshot])
    /\ UNCHANGED <<bundle, runner, target, backup, pc, idx, applied, err, pre>>

NextCheck ==
    \/ CheckCall
    \/ WriteTarget

SpecCheck == InitCheck /\ [][NextCheck]_vars


(***************************************************************************)
(* Chains of calls on one target with one patch: an apply, then            *)
(* run_rollback calls, one more call than the other specifications allow.  *)
(***************************************************************************)
MaxChain == MaxCalls + 1

\* a run_rollback that follows an apply call
ChainRollback ==
    /\ pc = "idle"
    /\ Len(log) >= 1
    /\ Len(log) < MaxChain
    /\ log[1].call = "apply"
    /\ \E force \in BOOLEAN, failAt \in 0..Len(manifest) :
          LET r == RunRollbackResult(manifest, target, backup, force, failAt) IN
          /\ target' = r.target
          /\ Return("rollback", force, r.err, Ok, Snapshot)
    /\ pre' = Snapshot
    /\ UNCHANGED <<bundle, runner, backup, idx, applied, err>>

\* an apply that follows a run_rollback: run, phase 1
ChainApplyValidate ==
    /\ pc = "idle"
    /\ Len(log) >= MaxCalls
    /\ Len(log) < MaxChain
    /\ log[Len(log)].call = "rollback"
    /\ pre' = Snapshot
    /\ idx' = 0
    /\ applied' = <<>>
    /\ err' = Ok
    /\ LET r == ValidateEntries(manifest, target) IN
       IF IsOk(r)
       THEN /\ pc' = "backup"
            /\ log' = log
       ELSE Return("apply", FALSE, r, Ok, Snapshot)
    /\ UNCHANGED <<bundle, runner, target, backup>>

NextChain ==
    \/ ApplyValidate
    \/ ChainApplyValidate
    \/ ApplyBackup
    \/ ApplyStep
    \/ VerifyStep
    \/ RollbackStep
    \/ ChainRollback

SpecChain == Init /\ [][NextChain]_vars


(***************************************************************************)
(* verify_entry on its own: any entry of the manifest verified against any *)
(* state of the target.                                                    *)
(***************************************************************************)
InitVerify ==
    /\ Init
    /\ diffs = PatchCreate(orig, new).diffs
    /\ additions = PatchCreate(orig, new).additions
    /\ ~backup.exists

VerifyCall ==
    /\ pc = "idle"
    /\ Len(log) < MaxCalls
    /\ UNCHANGED <<bundle, runner, target, backup, pc, idx, applied, err, pre>>
    /\ \E i \in 1..Len(manifest) :
          log' = Append(log, [call |-> "verify_entry", entry |-> manifest[i],
                              result |-> VerifyEntry(manifest[i], target),
                              pre |-> Snapshot,
                              post |-> [target |-> target', backup |-> backup']])

NextVerify ==
    \/ VerifyCall
    \/ WriteTarget

SpecVerify == InitVerify /\ [][NextVerify]_vars


(***************************************************************************)
(* graft-gui: run_headless(patch_data, target_path, skip_confirm).  The    *)
(* line read from stdin is a sequence of characters; LF is the newline     *)
(* read_line keeps.                                                        *)
(***************************************************************************)
Whitespace == {" ", "LF"}

Answers ==
    {<<"y", "LF">>, <<"Y", "LF">>, <<" ", "Y", " ", "LF">>, <<"y">>,
     <<"y", "e", "s", "LF">>, <<"y", " ", "y", "LF">>, <<"n", "LF">>, <<"LF">>, <<>>}

\* str::trim
RECURSIVE TrimStart(_)
TrimStart(s) ==
    IF Len(s) > 0 /\ s[1] \in Whitespace THEN TrimStart(Tail(s)) ELSE s

RECURSIVE TrimEnd(_)
TrimEnd(s) ==
    IF Len(s) > 0 /\ s[Len(s)] \in Whitespace
    THEN TrimEnd(SubSeq(s, 1, Len(s) - 1)) ELSE s

Trim(s) == TrimEnd(TrimStart(s))

ToAsciiLowercase(ch) == IF ch = "Y" THEN "y" ELSE ch

\* EqIgnoreAsciiCase that compares the characters as they are
EqIgnoreAsciiCase_Exact(s, t) == s = t

\* str::eq_ignore_ascii_case
EqIgnoreAsciiCase(s, t) ==
    /\ Len(s) = Len(t)
    /\ \A k \in 1..Len(s) : ToAsciiLowercase(s[k]) = ToAsciiLowercase(t[k])

\* run_headless, lines 32-42: does the run go on to create the runner
Confirmed(skip_confirm, input) ==
    skip_confirm \/ EqIgnoreAsciiCase(Trim(input), <<"y">>)

\* a target to which no patch was applied before
InitHeadless ==
    /\ Init
    /\ ~backup.exists

\* run_headless up to line 42; early: PatchValidator::validate, a flush of
\* stdout or read_line returned an error
HeadlessConfirm ==
    /\ pc = "idle"
    /\ Len(log) = 0
    /\ \E skip_confirm \in BOOLEAN, input \in Answers, early \in BOOLEAN :
          /\ log' = <<[call |-> "run_headless", skip_confirm |-> skip_confirm,
                       input |-> input,
                       result |-> IF early THEN PatchError("io", 0, "validate or stdio")
                                  ELSE Ok,
                       pre |-> Snapshot]>>
          /\ pc' = IF early THEN "failed"
                   ELSE IF Confirmed(skip_confirm, input) THEN "idle" ELSE "aborted"
    /\ UNCHANGED <<bundle, runner, target, backup, idx, applied, err, pre>>

\* run_headless, line 47
HeadlessNew ==
    /\ Len(log) = 1
    /\ RunnerNew

NextHeadless ==
    \/ HeadlessConfirm
    \/ HeadlessNew
    \/ RunnerValidate
    \/ RunnerBackup
    \/ RunnerApplyStep
    \/ RunnerVerifyStep
    \/ RunnerRollback
    \/ RunnerDrop

SpecHeadless == InitHeadless /\ [][NextHeadless]_vars


(***************************************************************************)
(* The two apply workflows as functions of their inputs and of what the    *)
(* environment does to them.  env: the entry whose backup copy fails, the  *)
(* engine's choice to check diff hashes, the position in `applied` whose   *)
(* restore fails.                                                          *)
(***************************************************************************)
Envs ==
    [backupFailAt : 0..NumFiles, checkDiffHash : BOOLEAN, rollbackFailAt : 0..NumFiles]

\* patch_apply::run, lines 34-50
RECURSIVE CliPhase3(_, _, _, _, _, _, _, _)
CliPhase3(entries, i, done, tgt, bk, dfs, adds, env) ==
    IF i > Len(entries) THEN [result |-> Ok, target |-> tgt, backup |-> bk]
    ELSE LET a == ApplyEntry(entries[i], tgt, dfs, adds, env.checkDiffHash)
             v == VerifyEntry(entries[i], a.target)
             e == IF ~IsOk(a.err) THEN a.err ELSE v
             rb == Rollback(done, a.target, bk, env.rollbackFailAt)
         IN  IF ~IsOk(e)
             THEN [result |-> IF IsOk(rb.err) THEN e ELSE rb.err,
                   target |-> rb.target, backup |-> bk]
             ELSE CliPhase3(entries, i + 1, Append(done, entries[i]), a.target, bk,
                            dfs, adds, env)

\* patch_apply::run, lines 26-50
PatchApplyRun(entries, tgt, bk, dfs, adds, env) ==
    LET v == ValidateEntries(entries, tgt)
        b == BackupEntries(entries, tgt, bk, env.backupFailAt)
    IN  IF ~IsOk(v) THEN [result |-> v, target |-> tgt, backup |-> bk]
        ELSE IF ~IsOk(b.err) THEN [result |-> b.err, target |-> tgt, backup |-> b.bk]
        ELSE CliPhase3(entries, 1, <<>>, tgt, b.bk, dfs, adds, env)

\* GuiPhase3 whose rollback also undoes the entry that failed
RECURSIVE GuiPhase3_UndoFailing(_, _, _, _, _, _, _, _, _)
GuiPhase3_UndoFailing(entries, i, done, tgt, bk, dfs, adds, env, evs) ==
    IF i > Len(entries)
    THEN [result |-> Ok, target |-> tgt, backup |-> bk,
          events |-> Append(evs, DoneEvent(Len(entries)))]
    ELSE LET p == Append(evs, ProcessingEvent(entries[i], i - 1, Len(entries)))
             a == ApplyEntry(entries[i], tgt, dfs, adds, env.checkDiffHash)
             v == VerifyEntry(entries[i], a.target)
             e == IF ~IsOk(a.err) THEN a.err ELSE v
             rb == Rollback(Append(done, entries[i]), a.target, bk, env.rollbackFailAt)
         IN  IF ~IsOk(e)
             THEN [result |-> IF IsOk(rb.err) THEN e ELSE rb.err,
                   target |-> rb.target, backup |-> bk,
                   events |-> EventsAfterRollback(p, IF ~IsOk(a.err) THEN "apply"
                                                     ELSE "verify", entries[i], e, rb.err)]
             ELSE GuiPhase3_UndoFailing(entries, i + 1, Append(done, entries[i]),
                                        a.target, bk, dfs, adds, env,
                                        Append(p, ProcessedEvent(i - 1, Len(entries))))

\* PatchRunner::apply, lines 77-114
RECURSIVE GuiPhase3(_, _, _, _, _, _, _, _, _)
GuiPhase3(entries, i, done, tgt, bk, dfs, adds, env, evs) ==
    IF i > Len(entries)
    THEN [result |-> Ok, target |-> tgt, backup |-> bk,
          events |-> Append(evs, DoneEvent(Len(entries)))]
    ELSE LET p == Append(evs, ProcessingEvent(entries[i], i - 1, Len(entries)))
             a == ApplyEntry(entries[i], tgt, dfs, adds, env.checkDiffHash)
             v == VerifyEntry(entries[i], a.target)
             e == IF ~IsOk(a.err) THEN a.err ELSE v
             rb == Rollback(done, a.target, bk, env.rollbackFailAt)
         IN  IF ~IsOk(e)
             THEN [result |-> IF IsOk(rb.err) THEN e ELSE rb.err,
                   target |-> rb.target, backup |-> bk,
                   events |-> EventsAfterRollback(p, IF ~IsOk(a.err) THEN "apply"
                                                     ELSE "verify", entries[i], e, rb.err)]
             ELSE GuiPhase3(entries, i + 1, Append(done, entries[i]), a.target, bk,
                            dfs, adds, env,
                            Append(p, ProcessedEvent(i - 1, Len(entries))))

\* PatchRunner::apply, lines 67-114
PatchRunnerApply(entries, tgt, bk, dfs, adds, env) ==
    LET v == ValidateEntries(entries, tgt)
        b == BackupEntries(entries, tgt, bk, env.backupFailAt)
    IN  IF ~IsOk(v) THEN [result |-> v, target |-> tgt, backup |-> bk, events |-> <<>>]
        ELSE IF ~IsOk(b.err)
             THEN [result |-> b.err, target |-> tgt, backup |-> b.bk, events |-> <<>>]
        ELSE GuiPhase3(entries, 1, <<>>, tgt, b.bk, dfs, adds, env, <<>>)

\* both workflows given the same manifest, bundle, target and environment
CompareCall ==
    /\ pc = "idle"
    /\ Len(log) = 0
    /\ \E env \in Envs :
          LET cli == PatchApplyRun(manifest, target, backup, diffs, additions, env)
              gui == PatchRunnerApply(manifest, target, backup, diffs, additions, env)
          IN  log' = Append(log, [call |-> "compare", env |-> env, cli |-> cli,
                                  gui |-> [result |-> gui.result, target |-> gui.target,
                                           backup |-> gui.backup]])
    /\ UNCHANGED <<bundle, runner, target, backup, pc, idx, applied, err, pre>>

NextAgree == CompareCall

SpecAgree == Init /\ [][NextAgree]_vars


(***************************************************************************)
(* Vocabulary of the properties.                                           *)
(***************************************************************************)
Returned == pc = "idle" /\ Len(log) > 0
Last == log[Len(log)]
\* the last call that returned is an apply, and nothing has run since
ApplyReturned == Returned /\ Last.call = "apply"
InApply == pc # "idle"
InPhase3 == pc \in {"apply", "verify", "rollback"}
Phase3Failed(c) == c.cause.kind \in {"ApplyFailed", "VerificationFailed"}
IoFault(r) ==
    r.reason \in {"io", "failed to restore: io error", "failed to remove added file: io error"}
Entries == {manifest[i] : i \in 1..Len(manifest)}
Untampered ==
    /\ diffs = PatchCreate(orig, new).diffs
    /\ additions = PatchCreate(orig, new).additions

\* the phase-1 rule of an entry, as the design states it
PreconditionViolated(e, tgt) ==
    \/ e.op = "patch" /\ (tgt[e.file] = Absent \/ Hash(tgt[e.file]) # e.original_hash)
    \/ e.op = "add" /\ tgt[e.file] # Absent
    \/ e.op = "delete" /\ tgt[e.file] # Absent /\ Hash(tgt[e.file]) # e.original_hash

\* the post-state of an entry, as the design states it
PostStateHolds(e, tgt) ==
    IF e.op = "delete" THEN tgt[e.file] = Absent
    ELSE tgt[e.file] # Absent /\ Hash(tgt[e.file]) = e.final_hash

\* C1: atomicity of apply.  When phase 3 fails at an entry (apply step or
\* verify step) and the returned error is not RollbackFailed, every file of
\* the target is as it was before the call.
C1_Atomicity ==
    (ApplyReturned /\ Phase3Failed(Last) /\ Last.result.kind # "RollbackFailed")
        => target = Last.pre.target

\* C2: an entry that violates its phase-1 precondition makes apply return
\* ValidationFailed with no mutation: the target and the backup directory are
\* as before, and no backup or apply step runs.
C2_ValidationNoMutation ==
    /\ InApply => \A e \in Entries : ~PreconditionViolated(e, pre.target)
    /\ (ApplyReturned /\ \E e \in Entries : PreconditionViolated(e, Last.pre.target))
          => /\ Last.result.kind = "ValidationFailed"
             /\ target = Last.pre.target
             /\ backup = Last.pre.backup

\* a later entry fails validation although an earlier one was ready for backup
C2_Witness ==
    /\ ApplyReturned
    /\ Last.result.kind = "ValidationFailed"
    /\ Len(manifest) = 2
    /\ manifest[1].op = "patch"
    /\ ~PreconditionViolated(manifest[1], Last.pre.target)
    /\ PreconditionViolated(manifest[2], Last.pre.target)
    /\ ~Last.pre.backup.exists

\* C3: hash identity.  When apply returns success, every Patch and Add
\* entry's file exists with hash final_hash and every Delete entry's file
\* does not exist.
C3_HashIdentity ==
    (ApplyReturned /\ IsOk(Last.result))
        => \A e \in Entries : PostStateHolds(e, target)

C3_Witness ==
    /\ ApplyReturned
    /\ IsOk(Last.result)
    /\ \E e \in Entries : e.op = "patch"
    /\ \E e \in Entries : e.op \in {"add", "delete"}

\* C4: forward round trip.  Applying the patch created from (orig, new) to a
\* target equal to orig succeeds and leaves the target equal to new (unless
\* the file system refuses a backup copy).
C4_ForwardRoundTrip ==
    (ApplyReturned /\ Last.pre.target = orig /\ Untampered
                   /\ Last.result.kind # "BackupFailed")
        => IsOk(Last.result) /\ target = new

C4_Witness ==
    /\ ApplyReturned
    /\ Last.pre.target = orig
    /\ Untampered
    /\ IsOk(Last.result)
    /\ target = new
    /\ \E e \in Entries : e.op = "patch"
    /\ \E e \in Entries : e.op = "delete"

\* C5: rollback round trip.  After a successful apply of the patch created
\* from (orig, new) to a target equal to orig, run_rollback with force=false
\* succeeds and the target equals orig again (the file system refusing no
\* copy or removal).  Stated for orig # new, a patch that changes something.
C5_RollbackRoundTrip ==
    (/\ pc = "idle"
     /\ Len(log) = 2
     /\ orig # new
     /\ log[1].call = "apply" /\ IsOk(log[1].result)
     /\ log[1].pre.target = orig /\ Untampered
     /\ log[2].call = "rollback" /\ ~log[2].force
     /\ ~IoFault(log[2].result))
        => IsOk(log[2].result) /\ target = orig

\* C6: after every successful apply the backup directory exists, so that a
\* later run_rollback does not fail for lack of it.  Stated for a manifest
\* with at least one entry.
C6_BackupDirRetained ==
    (ApplyReturned /\ IsOk(Last.result) /\ Len(manifest) > 0) => backup.exists

\* C7: backup content.  Once phase 2 has completed (during phase 3, after
\* success, after a phase-3 rollback), every Patch or Delete entry whose file
\* existed at validation time has a backup file hashing to original_hash; and
\* the apply call writes no backup file for an Add entry.
AfterPhase2 ==
    \/ InPhase3
    \/ ApplyReturned /\ Last.result.kind \notin {"ValidationFailed", "BackupFailed"}

C7_BackupContent ==
    /\ AfterPhase2 =>
          \A e \in Entries :
              (e.op \in {"patch", "delete"} /\ pre.target[e.file] # Absent)
                  => /\ backup.files[e.file] # Absent
                     /\ Hash(backup.files[e.file]) = e.original_hash
    /\ (InApply \/ ApplyReturned) =>
          \A e \in Entries :
              e.op = "add" => backup.files[e.file] = pre.backup.files[e.file]

\* after a phase-3 rollback, with a backed-up Delete and an Add in the manifest
C7_Witness ==
    /\ ApplyReturned
    /\ Phase3Failed(Last)
    /\ \E e \in Entries : e.op = "delete" /\ pre.target[e.file] # Absent
    /\ \E e \in Entries : e.op = "add"

\* C8: phase ordering.  No apply step touches the target before the backup
\* copy of every existing Patch/Delete target is complete; so when phase-3
\* rollback restores an applied Patch entry, its backup file exists.
BackupComplete ==
    \A e \in Entries :
        (e.op \in {"patch", "delete"} /\ pre.target[e.file] # Absent)
            => backup.exists /\ backup.files[e.file] = pre.target[e.file]

C8_PhaseOrdering ==
    /\ pc = "backup" => target = pre.target
    /\ InPhase3 => BackupComplete
    /\ pc = "rollback" =>
          \A j \in 1..Len(applied) :
              applied[j].op = "patch" => backup.files[applied[j].file] # Absent

\* phase-3 rollback is about to restore an applied Patch entry
C8_Witness ==
    /\ pc = "rollback"
    /\ \E j \in 1..Len(applied) : applied[j].op = "patch"

\* C9: idempotent delete.  A manifest of Delete entries only, applied to a
\* target where all the named files are already absent, returns success,
\* changes no target file and writes no backup file.
C9_IdempotentDelete ==
    (/\ ApplyReturned
     /\ Len(manifest) > 0
     /\ \A e \in Entries : e.op = "delete" /\ Last.pre.target[e.file] = Absent)
        => /\ IsOk(Last.result)
           /\ target = Last.pre.target
           /\ backup = Last.pre.backup

C9_Witness ==
    /\ ApplyReturned
    /\ Len(manifest) = 2
    /\ \A e \in Entries : e.op = "delete" /\ Last.pre.target[e.file] = Absent
    /\ IsOk(Last.result)

\* C10: when an apply or verify step fails and the rollback fails too, apply
\* returns RollbackFailed and the original ApplyFailed / VerificationFailed
\* error is part of what the caller receives.
ErrorsReceived(c) == {c.result}

C10_OriginalErrorPreserved ==
    (ApplyReturned /\ Phase3Failed(Last) /\ Last.result.kind = "RollbackFailed")
        => Last.cause \in ErrorsReceived(Last)

\* the backup file validate_backup expects of an entry is missing or does
\* not hash to original_hash
BackupBroken(e, bk) ==
    \/ e.op = "patch" /\ (bk.files[e.file] = Absent
                            \/ Hash(bk.files[e.file]) # e.original_hash)
    \/ e.op = "delete" /\ bk.files[e.file] # Absent
                        /\ Hash(bk.files[e.file]) # e.original_hash

RollbackReturned == Returned /\ Last.call = "rollback"

\* C12: run_rollback with force=false, called when some entry's target is not
\* in its post-apply state (Patch/Add file missing or not hashing to
\* final_hash, Delete file present), returns an error and changes no target
\* file: the check of all entries completes before any restore or delete.
C12_UnforcedStateCheck ==
    (RollbackReturned /\ ~Last.force
       /\ \E e \in Entries : ~PostStateHolds(e, Last.pre.target))
        => ~IsOk(Last.result) /\ target = Last.pre.target

\* the first entry is in its post-apply state, the second is not, and the
\* backups are such that a rollback would have gone ahead
C12_Witness ==
    /\ RollbackReturned /\ ~Last.force
    /\ Len(manifest) = 2
    /\ PostStateHolds(manifest[1], Last.pre.target)
    /\ ~PostStateHolds(manifest[2], Last.pre.target)
    /\ Last.pre.backup.exists
    /\ \A e \in Entries : ~BackupBroken(e, Last.pre.backup)
    /\ ~IsOk(Last.result)

C16_BackupFailure ==
    /\ (ApplyReturned /\ Last.result.kind = "BackupFailed")
          => /\ target = Last.pre.target
             /\ applied = <<>>
             /\ \E e \in Entries : /\ e.file = Last.result.file
                                    /\ e.op \in {"patch", "delete"}
                                    /\ Last.pre.target[e.file] # Absent
             /\ backup.exists
             /\ \A f \in Files :
                   backup.files[f] \in {Last.pre.backup.files[f], Last.pre.target[f]}
    /\ (/\ ApplyReturned
        /\ \A e \in Entries : ~PreconditionViolated(e, Last.pre.target)
        /\ ~BackupComplete)
          => Last.result.kind = "BackupFailed"

\* the second copy fails after the first was made into a fresh directory
C16_Witness ==
    /\ ApplyReturned
    /\ Last.result.kind = "BackupFailed"
    /\ Len(manifest) = 2
    /\ Last.result.file = manifest[2].file
    /\ ~Last.pre.backup.exists
    /\ backup.files[manifest[1].file] = Last.pre.target[manifest[1].file]
    /\ backup.files[manifest[1].file] # Absent

\* C11: run_rollback checks its preconditions in order and mutates nothing
\* when one fails: ManifestError when the manifest file is missing or
\* malformed (also when the backup directory is missing too), otherwise
\* RollbackFailed when target/.patch-backup does not exist; in both cases no
\* target file and no backup file is changed.
C11_RollbackPreconditions ==
    RollbackReturned =>
        /\ Last.load # "ok" =>
              /\ Last.result.kind = "ManifestError"
              /\ target = Last.pre.target
              /\ backup = Last.pre.backup
        /\ (Last.load = "ok" /\ ~Last.pre.backup.exists) =>
              /\ Last.result.kind = "RollbackFailed"
              /\ target = Last.pre.target
              /\ backup = Last.pre.backup

\* manifest file and backup directory both missing, with files to undo
C11_Witness ==
    /\ RollbackReturned
    /\ Last.load = "missing"
    /\ ~Last.pre.backup.exists
    /\ Last.result.kind = "ManifestError"
    /\ \E e \in Entries : e.op = "add" /\ Last.pre.target[e.file] # Absent

\* the two calls of a recovery: an apply, then a forced run_rollback that
\* loads its manifest and meets no file-system fault
ForcedRollbackAfterApply ==
    /\ pc = "idle"
    /\ Len(log) = 2
    /\ log[1].call = "apply"
    /\ log[2].call = "rollback"
    /\ log[2].load = "ok"
    /\ log[2].force
    /\ ~IoFault(log[2].result)

\* C14: the force flag.  After a successful apply of a manifest with a Patch
\* entry, whatever has been done to the target files since, run_rollback with
\* force=true over intact backups succeeds and leaves every Patch file equal
\* to its backup (hashing to original_hash), every backed-up Delete file
\* restored and every Add file absent.
C14_ForcedRollback ==
    (/\ ForcedRollbackAfterApply
     /\ IsOk(log[1].result)
     /\ \E e \in Entries : e.op = "patch"
     /\ \A e \in Entries : ~BackupBroken(e, log[2].pre.backup))
        => /\ IsOk(log[2].result)
           /\ \A e \in Entries :
                 /\ e.op = "patch" => /\ target[e.file] = backup.files[e.file]
                                      /\ Hash(target[e.file]) = e.original_hash
                 /\ (e.op = "delete" /\ backup.files[e.file] # Absent)
                       => target[e.file] = backup.files[e.file]
                 /\ e.op = "add" => target[e.file] = Absent

\* the patched file was rewritten or removed after the apply, and an Add
\* file is there to be removed
C14_Witness ==
    /\ ForcedRollbackAfterApply
    /\ IsOk(log[1].result)
    /\ IsOk(log[2].result)
    /\ \E e \in Entries : e.op = "patch" /\ ~PostStateHolds(e, log[2].pre.target)
    /\ \E e \in Entries : e.op = "add" /\ log[2].pre.target[e.file] # Absent

\* C15: crash recovery.  The process is killed during phase 3 between two
\* entries, after a non-empty prefix of the manifest has been applied and
\* verified, in a target that had no backup directory before the apply; a
\* following run_rollback with force=true succeeds and returns every file the
\* manifest names to its pre-apply existence and content.
C15_CrashRecovery ==
    (/\ ForcedRollbackAfterApply
     /\ log[1].result.kind = "Terminated"
     /\ applied # <<>>
     /\ ~log[1].pre.backup.exists)
        => /\ IsOk(log[2].result)
           /\ \A e \in Entries : target[e.file] = log[1].pre.target[e.file]

\* the categorize_files calls that have returned
CategorizeCalls == {i \in 1..Len(log) : log[i].call = "categorize"}
EntriesFor(list, f) == {i \in 1..Len(list) : list[i].file = f}

\* the classification of one file name, as the design states it
Classified(list, f) ==
    LET in_orig == orig[f] # Absent
        in_new  == new[f] # Absent
        es      == EntriesFor(list, f)
    IN  CASE in_orig /\ in_new /\ Hash(orig[f]) # Hash(new[f]) ->
                /\ es # {}
                /\ \A i \in es : /\ list[i].op = "patch"
                                  /\ list[i].original_hash = Hash(orig[f])
                                  /\ list[i].final_hash = Hash(new[f])
          [] ~in_orig /\ in_new ->
                /\ es # {}
                /\ \A i \in es : /\ list[i].op = "add"
                                  /\ list[i].original_hash = None
                                  /\ list[i].final_hash = Hash(new[f])
          [] in_orig /\ ~in_new ->
                /\ es # {}
                /\ \A i \in es : /\ list[i].op = "delete"
                                  /\ list[i].original_hash = Hash(orig[f])
                                  /\ list[i].final_hash = None
          [] OTHER -> es = {}

\* C17: categorize classifies exactly: Patch with both hashes for a name in
\* both directories with different hashes, Add with the new hash for a name
\* only in new, Delete with the original hash for a name only in orig, no
\* entry for a name whose bytes are equal in both.  So an empty orig gives
\* only Add entries, an empty new only Delete entries, identical directories
\* the empty list.
C17_Classification ==
    \A c \in CategorizeCalls :
        LET list == log[c].result IN
        /\ \A f \in Files : Classified(list, f)
        /\ orig = EmptyDir => \A i \in 1..Len(list) : list[i].op = "add"
        /\ new = EmptyDir => \A i \in 1..Len(list) : list[i].op = "delete"
        /\ orig = new => list = <<>>

\* one file modified, the other added or removed
C17_Witness ==
    \E c \in CategorizeCalls :
        /\ \E i \in 1..Len(log[c].result) : log[c].result[i].op = "patch"
        /\ \E i \in 1..Len(log[c].result) : log[c].result[i].op \in {"add", "delete"}

\* C18: categorize is deterministic.  The returned list is sorted ascending
\* by file name, and two calls over the same directories return identical
\* lists, whatever order the internal name sets iterate in.
C18_Deterministic ==
    /\ \A c \in CategorizeCalls :
          \A i, j \in 1..Len(log[c].result) :
              i < j => log[c].result[i].file <= log[c].result[j].file
    /\ \A c, d \in CategorizeCalls : log[c].result = log[d].result

\* two calls whose sets iterate in different orders, over two modified files
C18_Witness ==
    /\ Len(log) = 2
    /\ CategorizeCalls = {1, 2}
    /\ log[1].orig_first # log[2].orig_first
    /\ Len(log[1].result) = 2
    /\ \A i \in 1..2 : log[1].result[i].op = "patch"

\* C19: in every list categorize returns, no two entries name the same file
\* and every Patch entry has original_hash # final_hash.
C19_ListInvariants ==
    \A c \in CategorizeCalls :
        LET list == log[c].result IN
        /\ \A i, j \in 1..Len(list) : list[i].file = list[j].file => i = j
        /\ \A i \in 1..Len(list) :
              list[i].op = "patch" => list[i].original_hash # list[i].final_hash

\* a Patch entry is returned while another common file is unchanged
C19_Witness ==
    \E c \in CategorizeCalls :
        /\ \E i \in 1..Len(log[c].result) : log[c].result[i].op = "patch"
        /\ \E f \in Files : orig[f] # Absent /\ orig[f] = new[f]

\* the manifest files written by the save calls that succeeded
SavedFiles == {log[i].content : i \in {j \in 1..Len(log) : log[j].call = "save"
                                                         /\ IsOk(log[j].result)}}
\* the entry objects of a written manifest file
EntryObjects(content) ==
    LET m == CHOOSE i \in 1..Len(content) : content[i][1] = "entries"
    IN  content[m][2]
Members(object, key) == {i \in 1..Len(object) : object[i][1] = key}
HashFields == {"original_hash", "diff_hash", "final_hash"}
HashOf(e, key) ==
    CASE key = "original_hash" -> e.original_hash
      [] key = "diff_hash" -> e.diff_hash
      [] key = "final_hash" -> e.final_hash

\* C20: omitted fields.  A serialized manifest entry contains a hash field
\* (original_hash, diff_hash, final_hash) only when the entry carries a value
\* for it, and then with that value; an absent hash is never written as null.
C20_OmittedFields ==
    \A content \in SavedFiles :
        LET objects == EntryObjects(content) IN
        /\ Len(objects) = Len(manifest)
        /\ \A i \in 1..Len(objects), key \in HashFields :
              /\ Members(objects[i], key) # {} <=> HashOf(manifest[i], key) # None
              /\ \A m \in Members(objects[i], key) :
                    /\ objects[i][m][2] # JsonNull
                    /\ objects[i][m][2] = JsonString(HashOf(manifest[i], key))

\* an Add entry and a Delete entry have been written: hashes absent and
\* present in both
C20_Witness ==
    /\ SavedFiles # {}
    /\ \E i \in 1..Len(manifest) :
          manifest[i].op = "add" /\ manifest[i].original_hash = None
                                 /\ manifest[i].final_hash # None
    /\ \E i \in 1..Len(manifest) :
          manifest[i].op = "delete" /\ manifest[i].final_hash = None

\* the Manifest::load calls that have returned, by any caller
Loads == {i \in 1..Len(log) : log[i].call = "load"}
\* the successful save whose file load number j found
SaveBefore(j) ==
    CHOOSE i \in 1..(j - 1) :
        /\ log[i].call = "save" /\ IsOk(log[i].result)
        /\ \A k \in (i + 1)..(j - 1) : ~(log[k].call = "save" /\ IsOk(log[k].result))

\* an entry object without a hash field its operation variant requires
LacksRequiredHash(object) ==
    LET Is(op) == \E m \in Members(object, "operation") : object[m][2] = JsonString(op)
        Lacks(key) == Members(object, key) = {}
    IN  \/ Is("patch") /\ (Lacks("original_hash") \/ Lacks("diff_hash")
                                                  \/ Lacks("final_hash"))
        \/ Is("add") /\ Lacks("final_hash")
        \/ Is("delete") /\ Lacks("original_hash")

\* C21: loading a manifest fails, and apply and run_rollback return
\* ManifestError, when the file is missing, when it is not valid JSON, and
\* when an entry lacks a hash field its operation variant requires
\* (original_hash for patch and delete, final_hash for patch and add,
\* diff_hash for patch).
C21_LoadFailures ==
    \A j \in Loads :
        (\/ log[j].file.state \in {"missing", "malformed"}
         \/ /\ log[j].file.state = "ok"
            /\ \E o \in 1..Len(EntryObjects(log[j].file.doc)) :
                  LacksRequiredHash(EntryObjects(log[j].file.doc)[o]))
            => /\ ~IsOk(log[j].result)
               /\ log[j].by # "Manifest::load" => log[j].result.kind = "ManifestError"

\* C22: manifest round trip.  Loading the file a save wrote gives back the
\* version it was saved with and the entries of the manifest, in the same
\* order.
C22_RoundTrip ==
    \A j \in Loads :
        (log[j].edit = "none" /\ log[j].file.state = "ok")
            => /\ IsOk(log[j].result)
               /\ log[j].loaded.version = log[SaveBefore(j)].version
               /\ log[j].loaded.entries = manifest

\* two entries not in file-name order, saved with another version than the
\* default one, and loaded
C22_Witness ==
    \E j \in Loads :
        /\ log[j].edit = "none" /\ log[j].file.state = "ok"
        /\ Len(manifest) = 2
        /\ manifest[1].file > manifest[2].file
        /\ manifest[1].op # manifest[2].op
        /\ log[SaveBefore(j)].version # DefaultVersion
        /\ IsOk(log[j].result)

\* the backup_file and restore_file calls that returned success
FileOps(call) == {i \in 1..Len(log) : log[i].call = call /\ IsOk(log[i].result)}

\* C23: backup_file and restore_file are copies, not moves.  After
\* backup_file the source (and every other target file) is unchanged and the
\* backup file has the source's bytes; after restore_file the file has the
\* bytes of its backup file, created if it was missing, and the backup
\* directory is unchanged; so a restore of a file that is called again finds
\* the same backup and gives the same bytes, whatever was in the file before.
C23_Copies ==
    /\ \A i \in FileOps("backup_file") :
          LET f == log[i].file IN
          /\ log[i].post.target = log[i].pre.target
          /\ log[i].post.backup.exists
          /\ log[i].post.backup.files[f] = log[i].pre.target[f]
          /\ log[i].post.backup.files[f] # Absent
          /\ \A g \in Files \ {f} :
                log[i].post.backup.files[g] = log[i].pre.backup.files[g]
    /\ \A i \in FileOps("restore_file") :
          LET f == log[i].file IN
          /\ log[i].post.target[f] = log[i].pre.backup.files[f]
          /\ log[i].post.target[f] # Absent
          /\ log[i].post.backup = log[i].pre.backup
          /\ \A g \in Files \ {f} : log[i].post.target[g] = log[i].pre.target[g]
    /\ \A i, j \in FileOps("restore_file") :
          (j = i + 1 /\ log[i].file = log[j].file)
              => /\ log[j].pre.backup = log[i].pre.backup
                 /\ log[j].post.target[log[j].file] = log[i].post.target[log[i].file]

\* a file is restored over other bytes, removed, and restored again
C23_Witness ==
    /\ Len(log) = 2
    /\ FileOps("restore_file") = {1, 2}
    /\ log[1].file = log[2].file
    /\ log[1].pre.target[log[1].file] \notin {Absent, log[1].pre.backup.files[log[1].file]}
    /\ log[2].pre.target[log[2].file] = Absent

\* PatchRunner::apply has returned
RunnerReturned == pc \in {"returned", "dropped"} /\ Len(log) > 0
Emitted == {p \in 1..Len(events') : p > Len(events)}

C24_Shape ==
    /\ \A p \in 1..Len(events) :
          LET e == events[p] IN
          /\ e.ev = "Processing" =>
                /\ e.index = Cardinality({q \in 1..(p - 1) : events[q].ev = "Processing"})
                /\ e.index < Len(manifest)
                /\ e.file = manifest[e.index + 1].file
                /\ e.index > 0 => events[p - 1] = [ev |-> "Processed", index |-> e.index - 1,
                                                   total |-> Len(manifest)]
          /\ e.ev = "Processed" =>
                /\ p > 1
                /\ events[p - 1].ev = "Processing"
                /\ events[p - 1].index = e.index
                /\ Len(applied) > e.index
                /\ applied[e.index + 1] = manifest[e.index + 1]
          /\ e.ev = "Done" =>
                /\ p = Len(events)
                /\ RunnerReturned
                /\ IsOk(Last.result)
                /\ e.files_patched = Len(manifest)
                /\ p > 1 => events[p - 1] = [ev |-> "Processed", index |-> Len(manifest) - 1,
                                             total |-> Len(manifest)]
          /\ e.ev = "Error" =>
                /\ p = Len(events)
                /\ RunnerReturned
                /\ ~IsOk(Last.result)
    /\ (RunnerReturned /\ IsOk(Last.result))
          => (Len(events) > 0 /\ events[Len(events)].ev = "Done")

C24_Emit ==
    \A p \in Emitted :
       /\ events'[p].ev = "Processing" => (pc = "apply" /\ events'[p].index = idx - 1)
       /\ events'[p].ev = "Processed" =>
             /\ pc = "verify"
             /\ events'[p].index = idx - 1
             /\ PostStateHolds(manifest[idx], target')
       /\ events'[p].ev = "Done" => pc' = "returned"

\* C24: the progress events of PatchRunner::apply come in order.  The k-th
\* Processing event carries index k-1, is emitted when entry k is about to be
\* applied and, after the first, directly follows Processed of the entry
\* before; Processed(i) directly follows Processing(i) and is emitted only
\* when entry i has been applied and its post-state verified; Done is the
\* last event, emitted on success and on every success; Error is the last
\* event.
C24_EventOrder == []C24_Shape /\ [][C24_Emit]_vars

\* two entries processed and Done
C24_Witness ==
    /\ RunnerReturned
    /\ Len(events) = 5
    /\ events[5].ev = "Done"
    /\ events[4] = ProcessedEvent(1, 2)

\* C25: whenever PatchRunner::apply returns an error, the last event the
\* callback received is an Error event.
C25_ErrorEvent ==
    (RunnerReturned /\ ~IsOk(Last.result))
        => (Len(events) > 0 /\ events[Len(events)].ev = "Error")

\* C26: the scratch directory does not outlive the runner: it is not there
\* after PatchRunner::new failed, and it is deleted once a constructed
\* runner has gone out of scope.
C26_ScratchDeleted ==
    /\ pc = "new failed" => scratch # "exists"
    /\ pc = "dropped" => scratch = "deleted"

CheckCalls == {i \in 1..Len(log) : log[i].call = "check"}

\* C27: check returns Match exactly when the hash of the file's bytes is the
\* expected string, NoMatch carrying the hash of the file's bytes otherwise,
\* and an error with no result when the file cannot be read.
C27_CheckResult ==
    \A i \in CheckCalls :
       LET c == log[i]
           content == c.pre.target[c.file]
       IN  /\ content = Absent => ~IsOk(c.result)
           /\ ~IsOk(c.result) => c.out = None
           /\ IsOk(c.result) =>
                 /\ c.out.kind \in {"Match", "NoMatch"}
                 /\ c.out.kind = "Match" <=> c.expected = <<"h", content>>
                 /\ c.out.kind = "NoMatch" => c.out.actual = <<"h", content>>

\* a file checked against its hash in upper case, then against its hash
C27_Witness ==
    /\ Len(log) = 2
    /\ CheckCalls = {1, 2}
    /\ IsOk(log[1].result) /\ log[1].out.kind = "NoMatch"
    /\ log[1].expected[1] = "H"
    /\ IsOk(log[2].result) /\ log[2].out.kind = "Match"
    /\ log[2].file = log[1].file

\* the reason a violated phase-1 rule is reported with
RejectionReason(e, tgt) ==
    IF e.op = "add" THEN "file already exists in target"
    ELSE IF tgt[e.file] = Absent THEN "file not found in target"
    ELSE "hash mismatch"

Violating(tgt) == {i \in 1..Len(manifest) : PreconditionViolated(manifest[i], tgt)}

\* C28: phase 1 accepts exactly when every entry satisfies its rule; when it
\* rejects, apply returns ValidationFailed naming the first entry in manifest
\* order whose rule is violated, with the reason of that violation (missing
\* file, existing Add target, hash mismatch).
C28_Validation ==
    /\ pc = "backup" => Violating(pre.target) = {}
    /\ ApplyReturned =>
          LET bad == Violating(Last.pre.target) IN
          /\ bad = {} => Last.result.kind # "ValidationFailed"
          /\ bad # {} =>
                LET first == CHOOSE i \in bad : \A j \in bad : i <= j IN
                /\ Last.result.kind = "ValidationFailed"
                /\ Last.result.file = manifest[first].file
                /\ Last.result.reason = RejectionReason(manifest[first], Last.pre.target)

\* both entries of a manifest violate their rules, for different reasons
C28_Witness ==
    /\ ApplyReturned
    /\ Len(manifest) = 2
    /\ Violating(Last.pre.target) = {1, 2}
    /\ RejectionReason(manifest[1], Last.pre.target)
          # RejectionReason(manifest[2], Last.pre.target)

Phase3Pcs == {"apply", "verify", "rollback", "rollback apply", "rollback verify"}
RollbackPcs == {"rollback", "rollback apply", "rollback verify"}
Phase3Returned ==
    /\ ApplyReturned \/ RunnerReturned
    /\ Last.call \in {"apply", "PatchRunner::apply"}
FileOf(j) == manifest[j].file

C29_Prefix ==
    /\ pc \in Phase3Pcs =>
          /\ idx \in 1..Len(manifest)
          /\ applied = SubSeq(manifest, 1, idx - 1)
          /\ \A j \in 1..(idx - 1) : PostStateHolds(manifest[j], target)
          /\ \A j \in (idx + 1)..Len(manifest) : target[FileOf(j)] = pre.target[FileOf(j)]
          /\ pc = "apply" => target[FileOf(idx)] = pre.target[FileOf(idx)]
          /\ pc \in RollbackPcs => ~IsOk(err)
    /\ (Phase3Returned /\ Phase3Failed(Last)) =>
          /\ idx \in 1..Len(manifest)
          /\ applied = SubSeq(manifest, 1, idx - 1)
          /\ Last.cause.file = FileOf(idx)
          /\ \A j \in (idx + 1)..Len(manifest) :
                target[FileOf(j)] = Last.pre.target[FileOf(j)]
    /\ (Phase3Returned /\ IsOk(Last.result)) => applied = manifest

C29_Step ==
    /\ pc' = "verify" => (pc = "apply" /\ idx' = idx)
    /\ (pc \in Phase3Pcs /\ applied' # applied) =>
          /\ pc = "verify"
          /\ applied' = Append(applied, manifest[idx])
          /\ PostStateHolds(manifest[idx], target)
    /\ (pc \in Phase3Pcs /\ idx' # idx) =>
          /\ applied' # applied
          /\ idx' = idx + 1
          /\ pc' = "apply"
    /\ pc \in RollbackPcs =>
          /\ pc' \in {pc, "idle", "returned"}
          /\ applied' = applied
          /\ idx' = idx

\* C29: phase 3 takes the entries in manifest order, one at a time: an entry
\* is verified only after it was applied, the next entry is started only
\* after the entry before was verified and pushed to applied, and after the
\* first failure nothing but the rollback runs.  applied is at every moment
\* the prefix of the manifest before the entry being processed; it never
\* holds the failing entry, and no file of a later entry has been touched.
C29_Phase3Order == []C29_Prefix /\ [][C29_Step]_vars

\* the second of two entries fails after the first was applied and verified
C29_Witness ==
    /\ ApplyReturned
    /\ Phase3Failed(Last)
    /\ Len(manifest) = 2
    /\ idx = 2
    /\ Len(applied) = 1

\* calls c, c + 1, c + 2 are a successful apply, a successful run_rollback
\* and an unforced run_rollback, and the last has returned
DoubleRollback(c) ==
    /\ pc = "idle"
    /\ Len(log) = c + 2
    /\ log[c].call = "apply" /\ IsOk(log[c].result)
    /\ log[c + 1].call = "rollback" /\ IsOk(log[c + 1].result)
    /\ log[c + 2].call = "rollback" /\ ~log[c + 2].force

DeletesOfAbsent(tgt) ==
    {i \in 1..Len(manifest) : manifest[i].op = "delete" /\ tgt[FileOf(i)] = Absent}

\* C31: a Delete entry whose file was already absent before the apply call
\* leaves the file absent after a phase-3 rollback that succeeded and after a
\* run_rollback that succeeded, whatever target/.patch-backup held before.
C31_DeleteOfAbsent ==
    /\ (ApplyReturned /\ Phase3Failed(Last) /\ Last.result.kind # "RollbackFailed")
          => \A i \in DeletesOfAbsent(Last.pre.target) : target[FileOf(i)] = Absent
    /\ (Returned /\ Len(log) = 2 /\ log[1].call = "apply" /\ IsOk(log[1].result)
          /\ log[2].call = "rollback" /\ IsOk(log[2].result))
          => \A i \in DeletesOfAbsent(log[1].pre.target) : target[FileOf(i)] = Absent

VerifyCalls == {i \in 1..Len(log) : log[i].call = "verify_entry"}

\* C32: verify_entry returns Ok exactly when the entry's post-state holds in
\* the target (Patch/Add: the file exists and hashes to final_hash; Delete:
\* the file does not exist), VerificationFailed naming the entry's file
\* otherwise, and leaves the target as it was.
C32_VerifyEntry ==
    \A i \in VerifyCalls :
       LET c == log[i] IN
       /\ IsOk(c.result) <=> PostStateHolds(c.entry, c.pre.target)
       /\ ~IsOk(c.result) =>
             /\ c.result.kind = "VerificationFailed"
             /\ c.result.file = c.entry.file
       /\ c.post = c.pre

\* a Delete entry verified with its file still there, and a Patch or Add
\* entry verified with its file missing
C32_Witness ==
    /\ Len(log) = 2
    /\ VerifyCalls = {1, 2}
    /\ log[1].entry.op = "delete" /\ ~IsOk(log[1].result)
    /\ log[2].entry.op # "delete" /\ ~IsOk(log[2].result)
    /\ log[2].pre.target[log[2].entry.file] = Absent

\* the answers that are y or Y between spaces and newlines
YesAnswers == {<<"y", "LF">>, <<"Y", "LF">>, <<" ", "Y", " ", "LF">>, <<"y">>}
HeadlessAsked ==
    Len(log) > 0 /\ log[1].call = "run_headless" /\ IsOk(log[1].result)
       /\ ~log[1].skip_confirm

\* C33: in headless mode without the skip flag, the run goes on to create
\* the runner exactly when the answer, trimmed, is y in either case; after
\* any other answer run_headless has returned Ok with no runner and no
\* scratch directory created, no backup directory created and every target
\* file as it was.
C33_Confirmation ==
    HeadlessAsked =>
       /\ log[1].input \in YesAnswers <=> pc # "aborted"
       /\ log[1].input \notin YesAnswers =>
             /\ Len(log) = 1
             /\ scratch = "none"
             /\ events = <<>>
             /\ target = log[1].pre.target
             /\ backup = log[1].pre.backup

\* the answer " Y " is given and the patch is applied, changing the target
C33_Witness ==
    /\ HeadlessAsked
    /\ log[1].input = <<" ", "Y", " ", "LF">>
    /\ pc = "dropped"
    /\ IsOk(Last.result)
    /\ target # log[1].pre.target

\* the answer "yes" is given
C33_WitnessNo ==
    /\ HeadlessAsked
    /\ log[1].input = <<"y", "e", "s", "LF">>
    /\ pc = "aborted"

\* the files no manifest entry names
Unnamed == Files \ {manifest[i].file : i \in 1..Len(manifest)}

C34_Step ==
    /\ \A f \in Unnamed : target'[f] = target[f]
    /\ bundle' = bundle

\* C34: no step of apply, of its phase-3 rollback or of run_rollback changes
\* a target file that no manifest entry names, and none changes the manifest,
\* the diffs or the additions of the patch.
C34_Frame == [][C34_Step]_vars

\* run_rollback has restored the named file while the backup directory held
\* other bytes for a file the manifest does not name
C34_Witness ==
    /\ RollbackReturned
    /\ IsOk(Last.result)
    /\ target # Last.pre.target
    /\ \E f \in Unnamed :
          /\ backup.files[f] # Absent
          /\ backup.files[f] # target[f]

CompareCalls == {i \in 1..Len(log) : log[i].call = "compare"}

\* C35: for every manifest, patch bundle, target and backup directory, and
\* for the same interference of the environment, PatchRunner::apply and
\* patch_apply::run return the same result (success or the same error for
\* the same file) and leave the same target and the same backup directory.
C35_WorkflowsAgree ==
    \A i \in CompareCalls :
       /\ log[i].cli.result = log[i].gui.result
       /\ log[i].cli.target = log[i].gui.target
       /\ log[i].cli.backup = log[i].gui.backup

\* both workflows fail at the second of two entries and roll back the first
C35_Witness ==
    \E i \in CompareCalls :
       /\ Len(manifest) = 2
       /\ log[i].cli.result.kind \in {"ApplyFailed", "VerificationFailed"}
       /\ log[i].cli.result.file = manifest[2].file
       /\ log[i].cli.target[manifest[1].file] = target[manifest[1].file]
       /\ ~PreconditionViolated(manifest[1], target)
       /\ ~PostStateHolds(manifest[1], target)

\* the backup directory as it was before the first call
FirstBackup == IF Len(log) > 0 THEN log[1].pre.backup ELSE pre.backup

C36_Backups ==
    ~FirstBackup.exists =>
       \A i \in 1..Len(manifest) :
          (manifest[i].op \in {"patch", "delete"} /\ backup.files[FileOf(i)] # Absent)
              => Hash(backup.files[FileOf(i)]) = manifest[i].original_hash

C36_Step == pc # "backup" => backup' = backup

\* C36: across the apply and run_rollback calls made with one manifest on a
\* target that had no backup directory, every backup file named by a Patch or
\* Delete entry hashes to the entry's original_hash, and only phase 2 of
\* apply writes to the backup directory.
C36_BackupsOriginal == []C36_Backups /\ [][C36_Step]_vars

\* an apply fails in phase 3 with a rollback that fails too, and the next
\* apply is rejected with the backups of the first still in place
C36_Witness ==
    /\ ~FirstBackup.exists
    /\ Returned
    /\ Len(log) = 2
    /\ log[1].call = "apply" /\ log[1].result.kind = "RollbackFailed"
    /\ log[2].call = "apply"
    /\ \E f \in Files : backup.files[f] # Absent /\ backup.files[f] # target[f]

\* calls c and c + 1 are forced run_rollbacks, the first succeeded and the
\* second has returned
ForcedTwice(c) ==
    /\ pc = "idle"
    /\ Len(log) = c + 1
    /\ log[c].call = "rollback" /\ log[c].force /\ IsOk(log[c].result)
    /\ log[c + 1].call = "rollback" /\ log[c + 1].force

\* C37: a forced run_rollback that succeeded can be run again: the second
\* run fails only when the file system refuses a restore or a removal, and
\* when it succeeds the target is as the first run left it.
C37_ForcedIdempotent ==
    \A c \in 1..Len(log) :
       ForcedTwice(c) =>
          /\ IsOk(log[c + 1].result) \/ IoFault(log[c + 1].result)
          /\ IsOk(log[c + 1].result) => target = log[c + 1].pre.target

\* a patch with an Add entry is applied and rolled back with force twice,
\* the first rollback changing the target
C37_Witness ==
    /\ ForcedTwice(2)
    /\ IsOk(log[3].result)
    /\ log[1].call = "apply" /\ IsOk(log[1].result)
    /\ log[2].pre.target # log[3].pre.target
    /\ \E i \in 1..Len(manifest) : manifest[i].op = "add"

\* calls c, c + 1, c + 2 are a successful apply, a successful run_rollback
\* and an apply that has returned
Reapplied(c) ==
    /\ pc = "idle"
    /\ Len(log) = c + 2
    /\ log[c].call = "apply" /\ IsOk(log[c].result)
    /\ log[c + 1].call = "rollback" /\ IsOk(log[c + 1].result)
    /\ log[c + 2].call = "apply"

\* C38: after a successful apply and a successful run_rollback, an apply of
\* the same patch passes validation, fails only when the file system refuses
\* a backup copy, and when it succeeds leaves the target and the backup
\* directory as the first apply left them.
C38_Reapply ==
    \A c \in 1..Len(log) :
       Reapplied(c) =>
          /\ log[c + 2].result.kind # "ValidationFailed"
          /\ IsOk(log[c + 2].result) \/ IoFault(log[c + 2].result)
          /\ IsOk(log[c + 2].result) =>
                /\ target = log[c + 1].pre.target
                /\ backup = log[c + 1].pre.backup

\* a patch that changes every file is applied, rolled back and applied again
C38_Witness ==
    /\ Reapplied(1)
    /\ IsOk(log[3].result)
    /\ \A f \in Files : log[1].pre.target[f] # log[2].pre.target[f]
    /\ log[3].pre.target = log[1].pre.target

=============================================================================
